---- MODULE Spec2Model ----
(***************************************************************************)
(* MixedIndentationRule (verilog/analysis/checkers/mixed_indentation_rule) *)
(* as a state machine: one rule instance, the file it is given, the        *)
(* profile FindFileIndentation infers and the violations ParseIndentation  *)
(* inserts.                                                                *)
(*                                                                         *)
(* Text encoding.  A file is a sequence of lines, a line a sequence of     *)
(* atoms.  An atom is one character together with what the token stream    *)
(* says about it:                                                          *)
(*    "S"  a space  that is part of a TK_SPACE token                       *)
(*    "T"  a tab    that is part of a TK_SPACE token                       *)
(*    "s"  a space  inside a comment or string literal                     *)
(*    "t"  a tab    inside a comment or string literal                     *)
(*    "x"  any character that is neither a space nor a tab                 *)
(* Positions are 0-based as in absl::string_view.                          *)
(***************************************************************************)
EXTENDS Integers, Sequences, FiniteSets, TLC

\* ------------------------------------------------------------------ bounds
MaxLines == 3
MaxIndent == 4

\* ------------------------------------------------------- program constants
npos == 2147483647
NUM_HISTOGRAM_BINS == 5
TK_SPACE == "TK_SPACE"
TK_OTHER == "TK_OTHER"

VARIABLES
  text_structure,                  \* the file handed to Lint (<<>> before the first call)
  pc,                              \* "idle" | "parse": where Lint stands
  linted,                          \* Lint has returned at least once
  violations_,                     \* std::set<LintViolation>
  indent_use_spaces,               \* bool member
  num_indent_spaces,               \* int member
  num_lines_starting_with_spaces,  \* locals of the last FindFileIndentation call
  num_lines_starting_with_tabs,
  indents_histogram,
  last_space_width,
  last_indent,
  status,                          \* what the last Report() returned
  rules                            \* the rule instances of the line-by-line
                                   \* specifications, one record each

vars == <<text_structure, pc, linted, violations_, indent_use_spaces,
          num_indent_spaces, num_lines_starting_with_spaces,
          num_lines_starting_with_tabs, indents_histogram, last_space_width,
          last_indent, status, rules>>

\* ----------------------------------------------------------------- helpers
Min(S) == CHOOSE m \in S : \A n \in S : m <= n

Abs(n) == IF n < 0 THEN -n ELSE n

\* The character an atom stands for.
CharOf(a) == IF a \in {"S", "s"} THEN " " ELSE IF a \in {"T", "t"} THEN "\t" ELSE "x"

\* An absl::string_view into the file: line number (1-based), offset of its
\* first character in that line, and its length.
StringView(l, o, n) == [line |-> l, off |-> o, n |-> n]

\* The whole line number l as a string_view.
LineView(ts, l) == StringView(l, 0, Len(ts[l]))

\* sv[p]
At(ts, sv, p) == CharOf(ts[sv.line][sv.off + p + 1])

\* sv.find_first_not_of(chars, start)
find_first_not_of(ts, sv, chars, start) ==
  LET hits == {p \in start..(sv.n - 1) : At(ts, sv, p) \notin chars}
  IN IF hits = {} THEN npos ELSE Min(hits)

\* sv.find_first_of(chars, start); sv.find(c, start) is the case chars = {c}
find_first_of(ts, sv, chars, start) ==
  LET hits == {p \in start..(sv.n - 1) : At(ts, sv, p) \in chars}
  IN IF hits = {} THEN npos ELSE Min(hits)

\* sv.substr(pos, count): count is clamped to what is left of sv
substr(sv, pos, count) ==
  StringView(sv.line, sv.off + pos, IF count < sv.n - pos THEN count ELSE sv.n - pos)

\* text_structure.GetRangeForText(sv).start
GetRangeForText(sv) == [start |-> [line |-> sv.line, column |-> sv.off]]

\* text_structure.FindTokenAt(pos): the token of the line that covers pos.
\* A TK_SPACE token is a maximal run of whitespace the lexer left outside
\* comments and strings; everything else is some other token.
FindTokenAt(ts, pos) ==
  LET line == ts[pos.line]
      isws(c) == line[c + 1] \in {"S", "T"}
      first == Min({b \in 0..pos.column : \A c \in b..pos.column : isws(c)})
      last == Min({e \in pos.column..(Len(line) - 1) :
                     e = Len(line) - 1 \/ ~isws(e + 1)})
  IN IF isws(pos.column)
       THEN [token_enum |-> TK_SPACE,
             text |-> StringView(pos.line, first, last - first + 1)]
       ELSE [token_enum |-> TK_OTHER, text |-> StringView(pos.line, pos.column, 1)]

\* Mutant: the token kind is not looked at.
IsSpaceToken_any(token) == TRUE

\* token.token_enum() == TK_SPACE (117, 139, 177, 241)
IsSpaceToken(token) == token.token_enum = TK_SPACE

\* Mutant: a line of spaces and tabs alone counts as indented.
HasLeadingIndent_blank(pos) == pos # 0

\* pos != absl::string_view::npos && pos != 0 (170, 233)
HasLeadingIndent(pos) == pos # npos /\ pos # 0

\* TokenInfo(token_enum, text)
TokenInfo(e, sv) == [token_enum |-> e, text |-> sv]

\* LintViolation(token, reason)
LintViolation(token, reason) == [token |-> token, reason |-> reason]

\* std::set<LintViolation>::insert: an element equal under the ordering key
\* (location and message) is not inserted again.
insert(vs, v) ==
  IF \E w \in vs : w.token.text = v.token.text /\ w.reason = v.reason
    THEN vs ELSE vs \cup {v}

\* The messages, as the arguments of absl::StrCat.
MixedStyleSpaces(n) ==
  <<"Mixed indentation style using tabs and spaces (0). Expected indent style: ",
    n, " spaces">>

MixedStyleTabs ==
  <<"Mixed indentation style using tabs and spaces (1). Expected indent style: tabs">>

IncorrectNumber(n) ==
  <<"Incorrect number of spaces used for indentation. Expected indent style: ",
    n, " spaces">>

MixedStyleBody(n) ==
  <<"Mixed indentation style using tabs and spaces (2). Expected indent style: ",
    n, " spaces">>

\* ----------------------------------------------------- isIndentPure (69-88)
\* Mutant: only the first character of the span is looked at.
isIndentPure_first(ts, whitespace, use_spaces, n, vs) ==
  LET isPure == At(ts, whitespace, 0) = (IF use_spaces THEN " " ELSE "\t")
      token == TokenInfo(TK_SPACE, whitespace)
  IN [isPure |-> isPure,
      violations |->
        IF ~isPure
          THEN IF use_spaces
                 THEN insert(vs, LintViolation(token, MixedStyleSpaces(n)))
                 ELSE insert(vs, LintViolation(token, MixedStyleTabs))
          ELSE vs]

isIndentPure(ts, whitespace, use_spaces, n, vs) ==
  LET num_valid_indent_chars ==
        find_first_not_of(ts, whitespace, IF use_spaces THEN {" "} ELSE {"\t"}, 0)
      isPure == num_valid_indent_chars = npos
      token == TokenInfo(TK_SPACE, whitespace)
  IN [isPure |-> isPure,
      violations |->
        IF ~isPure
          THEN IF use_spaces
                 THEN insert(vs, LintViolation(token, MixedStyleSpaces(n)))
                 ELSE insert(vs, LintViolation(token, MixedStyleTabs))
          ELSE vs]

\* ---------------------------------------- CheckLeadingSpacingIndent (90-102)
\* Mutant: the span is compared with the width instead of divided by it.
CheckLeadingSpacingIndent_less(whitespace, n, vs) ==
  IF whitespace.n < n
    THEN [ok |-> FALSE,
          violations |->
            insert(vs, LintViolation(TokenInfo(TK_SPACE, whitespace),
                                     IncorrectNumber(n)))]
    ELSE [ok |-> TRUE, violations |-> vs]

CheckLeadingSpacingIndent(whitespace, n, vs) ==
  IF (whitespace.n % n) # 0
    THEN [ok |-> FALSE,
          violations |->
            insert(vs, LintViolation(TokenInfo(TK_SPACE, whitespace),
                                     IncorrectNumber(n)))]
    ELSE [ok |-> TRUE, violations |-> vs]

\* ------------------------------------------------ CheckIndentation (104-150)
\* One pass of the do-while loop from start_pos0; the recursion is the next
\* iteration, taken while start_pos # npos.
\* Mutant: the loop ends after the first run it finds.
CheckIndentationFrom_once(ts, segment, start_pos0, use_spaces, n, vs) ==
  IF use_spaces
    THEN
      LET start_pos == find_first_of(ts, segment, {"\t"}, start_pos0)
      IN IF start_pos # npos
           THEN
             LET end_pos == find_first_not_of(ts, segment, {"\t"}, start_pos)
                 range == GetRangeForText(substr(segment, start_pos, end_pos - start_pos))
                 token == FindTokenAt(ts, range.start)
             IN IF IsSpaceToken(token)
                  THEN insert(vs, LintViolation(token, MixedStyleBody(n)))
                  ELSE vs
           ELSE vs
    ELSE
      LET start_pos == find_first_of(ts, segment, {" ", "\t"}, start_pos0)
      IN IF start_pos # npos
           THEN
             LET end_pos == find_first_not_of(ts, segment, {" ", "\t"}, start_pos)
                 whitespace == substr(segment, start_pos, end_pos - start_pos)
                 range == GetRangeForText(whitespace)
                 token == FindTokenAt(ts, range.start)
             IN IF whitespace.n > 1 /\ IsSpaceToken(token)
                  THEN isIndentPure(ts, whitespace, use_spaces, n, vs).violations
                  ELSE vs
           ELSE vs

RECURSIVE CheckIndentationFrom_short(_, _, _, _, _, _)
RECURSIVE CheckIndentationFrom_spaces(_, _, _, _, _, _)
RECURSIVE CheckIndentationFrom_run(_, _, _, _, _, _)
\* Mutant: under Spaces the run of tabs is reported, not the token around it.
CheckIndentationFrom_run(ts, segment, start_pos0, use_spaces, n, vs) ==
  IF use_spaces
    THEN
      LET start_pos == find_first_of(ts, segment, {"\t"}, start_pos0)
      IN IF start_pos # npos
           THEN
             LET end_pos == find_first_not_of(ts, segment, {"\t"}, start_pos)
                 run == substr(segment, start_pos, end_pos - start_pos)
                 range == GetRangeForText(run)
                 token == FindTokenAt(ts, range.start)
                 vs1 == IF IsSpaceToken(token)
                          THEN insert(vs, LintViolation(TokenInfo(TK_SPACE, run),
                                                        MixedStyleBody(n)))
                          ELSE vs
             IN IF end_pos # npos
                  THEN CheckIndentationFrom_run(ts, segment, end_pos, use_spaces, n, vs1)
                  ELSE vs1
           ELSE vs
    ELSE
      LET start_pos == find_first_of(ts, segment, {" ", "\t"}, start_pos0)
      IN IF start_pos # npos
           THEN
             LET end_pos == find_first_not_of(ts, segment, {" ", "\t"}, start_pos)
                 whitespace == substr(segment, start_pos, end_pos - start_pos)
                 range == GetRangeForText(whitespace)
                 token == FindTokenAt(ts, range.start)
                 vs1 == IF whitespace.n > 1 /\ IsSpaceToken(token)
                          THEN isIndentPure(ts, whitespace, use_spaces, n, vs).violations
                          ELSE vs
             IN IF end_pos # npos
                  THEN CheckIndentationFrom_run(ts, segment, end_pos, use_spaces, n, vs1)
                  ELSE vs1
           ELSE vs

\* Mutant: under Tabs a run of one character is examined as well.
CheckIndentationFrom_short(ts, segment, start_pos0, use_spaces, n, vs) ==
  IF use_spaces
    THEN
      LET start_pos == find_first_of(ts, segment, {"\t"}, start_pos0)
      IN IF start_pos # npos
           THEN
             LET end_pos == find_first_not_of(ts, segment, {"\t"}, start_pos)
                 range == GetRangeForText(substr(segment, start_pos, end_pos - start_pos))
                 token == FindTokenAt(ts, range.start)
                 vs1 == IF IsSpaceToken(token)
                          THEN insert(vs, LintViolation(token, MixedStyleBody(n)))
                          ELSE vs
             IN IF end_pos # npos
                  THEN CheckIndentationFrom_short(ts, segment, end_pos, use_spaces, n, vs1)
                  ELSE vs1
           ELSE vs
    ELSE
      LET start_pos == find_first_of(ts, segment, {" ", "\t"}, start_pos0)
      IN IF start_pos # npos
           THEN
             LET end_pos == find_first_not_of(ts, segment, {" ", "\t"}, start_pos)
                 whitespace == substr(segment, start_pos, end_pos - start_pos)
                 range == GetRangeForText(whitespace)
                 token == FindTokenAt(ts, range.start)
                 vs1 == IF IsSpaceToken(token)
                          THEN isIndentPure(ts, whitespace, use_spaces, n, vs).violations
                          ELSE vs
             IN IF end_pos # npos
                  THEN CheckIndentationFrom_short(ts, segment, end_pos, use_spaces, n, vs1)
                  ELSE vs1
           ELSE vs

\* Mutant: under Tabs the scan looks for runs of spaces alone.
CheckIndentationFrom_spaces(ts, segment, start_pos0, use_spaces, n, vs) ==
  IF use_spaces
    THEN
      LET start_pos == find_first_of(ts, segment, {"\t"}, start_pos0)
      IN IF start_pos # npos
           THEN
             LET end_pos == find_first_not_of(ts, segment, {"\t"}, start_pos)
                 range == GetRangeForText(substr(segment, start_pos, end_pos - start_pos))
                 token == FindTokenAt(ts, range.start)
                 vs1 == IF IsSpaceToken(token)
                          THEN insert(vs, LintViolation(token, MixedStyleBody(n)))
                          ELSE vs
             IN IF end_pos # npos
                  THEN CheckIndentationFrom_spaces(ts, segment, end_pos, use_spaces, n, vs1)
                  ELSE vs1
           ELSE vs
    ELSE
      LET start_pos == find_first_of(ts, segment, {" "}, start_pos0)
      IN IF start_pos # npos
           THEN
             LET end_pos == find_first_not_of(ts, segment, {" "}, start_pos)
                 whitespace == substr(segment, start_pos, end_pos - start_pos)
                 range == GetRangeForText(whitespace)
                 token == FindTokenAt(ts, range.start)
                 vs1 == IF whitespace.n > 1 /\ IsSpaceToken(token)
                          THEN isIndentPure(ts, whitespace, use_spaces, n, vs).violations
                          ELSE vs
             IN IF end_pos # npos
                  THEN CheckIndentationFrom_spaces(ts, segment, end_pos, use_spaces, n, vs1)
                  ELSE vs1
           ELSE vs

RECURSIVE CheckIndentationFrom(_, _, _, _, _, _)
CheckIndentationFrom(ts, segment, start_pos0, use_spaces, n, vs) ==
  IF use_spaces
    THEN
      \* Find the first tab character and report that
      LET start_pos == find_first_of(ts, segment, {"\t"}, start_pos0)
      IN IF start_pos # npos
           THEN
             LET end_pos == find_first_not_of(ts, segment, {"\t"}, start_pos)
                 range == GetRangeForText(substr(segment, start_pos, end_pos - start_pos))
                 token == FindTokenAt(ts, range.start)
                 vs1 == IF IsSpaceToken(token)
                          THEN insert(vs, LintViolation(token, MixedStyleBody(n)))
                          ELSE vs
             IN IF end_pos # npos
                  THEN CheckIndentationFrom(ts, segment, end_pos, use_spaces, n, vs1)
                  ELSE vs1
           ELSE vs
    ELSE
      \* Indent using tabs, so check for spaces that are 2 or more
      LET start_pos == find_first_of(ts, segment, {" ", "\t"}, start_pos0)
      IN IF start_pos # npos
           THEN
             LET end_pos == find_first_not_of(ts, segment, {" ", "\t"}, start_pos)
                 whitespace == substr(segment, start_pos, end_pos - start_pos)
                 range == GetRangeForText(whitespace)
                 token == FindTokenAt(ts, range.start)
                 vs1 == IF whitespace.n > 1 /\ IsSpaceToken(token)
                          THEN isIndentPure(ts, whitespace, use_spaces, n, vs).violations
                          ELSE vs
             IN IF end_pos # npos
                  THEN CheckIndentationFrom(ts, segment, end_pos, use_spaces, n, vs1)
                  ELSE vs1
           ELSE vs

\* Mutant: the scan position moves past a run only when the run was a
\* TK_SPACE token.
CheckIndentationBody_stuck(ts, segment, start_pos0, use_spaces, n, vs) ==
  IF use_spaces
    THEN
      LET start_pos == find_first_of(ts, segment, {"\t"}, start_pos0)
      IN IF start_pos # npos
           THEN
             LET end_pos == find_first_not_of(ts, segment, {"\t"}, start_pos)
                 range == GetRangeForText(substr(segment, start_pos, end_pos - start_pos))
                 token == FindTokenAt(ts, range.start)
             IN IF IsSpaceToken(token)
                  THEN [start_pos |-> end_pos,
                        violations |->
                          insert(vs, LintViolation(token, MixedStyleBody(n)))]
                  ELSE [start_pos |-> start_pos, violations |-> vs]
           ELSE [start_pos |-> npos, violations |-> vs]
    ELSE
      LET start_pos == find_first_of(ts, segment, {" ", "\t"}, start_pos0)
      IN IF start_pos # npos
           THEN
             LET end_pos == find_first_not_of(ts, segment, {" ", "\t"}, start_pos)
                 whitespace == substr(segment, start_pos, end_pos - start_pos)
                 range == GetRangeForText(whitespace)
                 token == FindTokenAt(ts, range.start)
             IN IF whitespace.n > 1 /\ IsSpaceToken(token)
                  THEN [start_pos |-> end_pos,
                        violations |->
                          isIndentPure(ts, whitespace, use_spaces, n, vs).violations]
                  ELSE [start_pos |-> start_pos, violations |-> vs]
           ELSE [start_pos |-> npos, violations |-> vs]

\* The body of the do-while loop (107-148), entered with the scan position
\* start_pos0: the position the loop condition (149) will test, and the
\* violations.
CheckIndentationBody(ts, segment, start_pos0, use_spaces, n, vs) ==
  IF use_spaces
    THEN
      \* Find the first tab character and report that
      LET start_pos == find_first_of(ts, segment, {"\t"}, start_pos0)
      IN IF start_pos # npos
           THEN
             LET end_pos == find_first_not_of(ts, segment, {"\t"}, start_pos)
                 range == GetRangeForText(substr(segment, start_pos, end_pos - start_pos))
                 token == FindTokenAt(ts, range.start)
             IN [start_pos |-> end_pos,
                 violations |->
                   IF IsSpaceToken(token)
                     THEN insert(vs, LintViolation(token, MixedStyleBody(n)))
                     ELSE vs]
           ELSE [start_pos |-> npos, violations |-> vs]
    ELSE
      \* Indent using tabs, so check for spaces that are 2 or more
      LET start_pos == find_first_of(ts, segment, {" ", "\t"}, start_pos0)
      IN IF start_pos # npos
           THEN
             LET end_pos == find_first_not_of(ts, segment, {" ", "\t"}, start_pos)
                 whitespace == substr(segment, start_pos, end_pos - start_pos)
                 range == GetRangeForText(whitespace)
                 token == FindTokenAt(ts, range.start)
             IN [start_pos |-> end_pos,
                 violations |->
                   IF whitespace.n > 1 /\ IsSpaceToken(token)
                     THEN isIndentPure(ts, whitespace, use_spaces, n, vs).violations
                     ELSE vs]
           ELSE [start_pos |-> npos, violations |-> vs]

\* Mutant: the test of indent_use_spaces is the wrong way round.
CheckIndentation_inverted(ts, segment, use_spaces, n, vs) ==
  CheckIndentationFrom(ts, segment, 0, ~use_spaces, n, vs)

CheckIndentation(ts, segment, use_spaces, n, vs) ==
  CheckIndentationFrom(ts, segment, 0, use_spaces, n, vs)

\* --------------------------------------------- FindFileIndentation (152-220)
\* Mutant: the counters keep what the previous call left in them.
FindLocalsInit_stale ==
  [num_lines_starting_with_spaces |-> num_lines_starting_with_spaces,
   num_lines_starting_with_tabs |-> num_lines_starting_with_tabs,
   indents_histogram |-> indents_histogram,
   last_space_width |-> last_space_width,
   last_indent |-> last_indent]

\* The locals as they are declared (154-160).
FindLocalsInit ==
  [num_lines_starting_with_spaces |-> 0,
   num_lines_starting_with_tabs |-> 0,
   indents_histogram |-> [b \in 0..(NUM_HISTOGRAM_BINS - 1) |-> 0],
   last_space_width |-> 0,
   last_indent |-> 0]

\* Mutant: a difference outside the bin range goes to the last bin.
AccumulateHistogram_clip(loc, num_leading_spaces) ==
  LET indent == Abs(num_leading_spaces - loc.last_space_width)
      bin == IF indent < NUM_HISTOGRAM_BINS THEN indent ELSE NUM_HISTOGRAM_BINS - 1
  IN [loc EXCEPT
        !.indents_histogram[IF bin = 0 THEN loc.last_indent ELSE bin] = @ + 1,
        !.last_space_width = num_leading_spaces,
        !.last_indent = bin]

\* Mutant: a discarded sample still becomes the baseline of the next one.
AccumulateHistogram_rebase(loc, num_leading_spaces) ==
  LET indent == Abs(num_leading_spaces - loc.last_space_width)
  IN IF indent < NUM_HISTOGRAM_BINS
       THEN [loc EXCEPT
               !.indents_histogram[IF indent = 0 THEN loc.last_indent ELSE indent] = @ + 1,
               !.last_space_width = num_leading_spaces,
               !.last_indent = indent]
       ELSE [loc EXCEPT !.last_space_width = num_leading_spaces]

\* Accumulate histogram, discard if outside bin range (186-198).
AccumulateHistogram(loc, num_leading_spaces) ==
  LET indent == Abs(num_leading_spaces - loc.last_space_width)
  IN IF indent < NUM_HISTOGRAM_BINS
       THEN [loc EXCEPT
               !.indents_histogram[IF indent = 0 THEN loc.last_indent ELSE indent] = @ + 1,
               !.last_space_width = num_leading_spaces,
               !.last_indent = indent]
       ELSE loc

\* Mutant: the token at the leading span is not asked for its kind.
FindFileIndentationLine_untyped(ts, l, loc) ==
  LET line == LineView(ts, l)
      pos == find_first_not_of(ts, line, {" ", "\t"}, 0)
      leading_indent == substr(line, 0, pos)
  IN IF line.n = 0 THEN loc
     ELSE IF ~HasLeadingIndent(pos) THEN loc
     ELSE IF At(ts, leading_indent, 0) = " "
       THEN
         LET counted == [loc EXCEPT !.num_lines_starting_with_spaces = @ + 1]
             num_leading_spaces == find_first_not_of(ts, leading_indent, {" "}, 0)
         IN IF num_leading_spaces = npos
              THEN AccumulateHistogram(counted, leading_indent.n)
              ELSE counted
     ELSE IF At(ts, line, 0) = "\t"
       THEN [loc EXCEPT !.num_lines_starting_with_tabs = @ + 1]
     ELSE loc

\* Mutant: a line is classified by its whole leading span, so a span of
\* spaces with a tab in it is in neither class.
FindFileIndentationLine_whole(ts, l, loc) ==
  LET line == LineView(ts, l)
      pos == find_first_not_of(ts, line, {" ", "\t"}, 0)
      leading_indent == substr(line, 0, pos)
      token == FindTokenAt(ts, GetRangeForText(leading_indent).start)
  IN IF line.n = 0 THEN loc
     ELSE IF ~HasLeadingIndent(pos) THEN loc
     ELSE IF ~IsSpaceToken(token) THEN loc
     ELSE IF find_first_not_of(ts, leading_indent, {" "}, 0) = npos
       THEN AccumulateHistogram(
              [loc EXCEPT !.num_lines_starting_with_spaces = @ + 1],
              leading_indent.n)
     ELSE IF find_first_not_of(ts, leading_indent, {"\t"}, 0) = npos
       THEN [loc EXCEPT !.num_lines_starting_with_tabs = @ + 1]
     ELSE loc

\* The body of the loop over the lines (162-205), for line number l.
FindFileIndentationLine(ts, l, loc) ==
  LET line == LineView(ts, l)
      pos == find_first_not_of(ts, line, {" ", "\t"}, 0)
      leading_indent == substr(line, 0, pos)
      token == FindTokenAt(ts, GetRangeForText(leading_indent).start)
  IN IF line.n = 0 THEN loc
     ELSE IF ~HasLeadingIndent(pos) THEN loc
     ELSE IF ~IsSpaceToken(token) THEN loc
     ELSE IF At(ts, leading_indent, 0) = " "
       THEN
         LET counted == [loc EXCEPT !.num_lines_starting_with_spaces = @ + 1]
             num_leading_spaces == find_first_not_of(ts, leading_indent, {" "}, 0)
         IN IF num_leading_spaces = npos
              THEN AccumulateHistogram(counted, leading_indent.n)
              ELSE counted
     ELSE IF At(ts, line, 0) = "\t"
       THEN [loc EXCEPT !.num_lines_starting_with_tabs = @ + 1]
     ELSE loc

RECURSIVE FindFileIndentationLoop(_, _, _)
FindFileIndentationLoop(ts, l, loc) ==
  IF l > Len(ts) THEN loc
  ELSE FindFileIndentationLoop(ts, l + 1, FindFileIndentationLine(ts, l, loc))

\* Mutant: a tie goes to tabs.
UseSpaces_strict(loc) ==
  loc.num_lines_starting_with_spaces > loc.num_lines_starting_with_tabs

\* Mutant: the comparison is the wrong way round.
UseSpaces_flipped(loc) ==
  loc.num_lines_starting_with_spaces <= loc.num_lines_starting_with_tabs

\* indent_use_spaces (207)
UseSpaces(loc) ==
  loc.num_lines_starting_with_spaces >= loc.num_lines_starting_with_tabs

\* Determine the number of spaces to indent (209-219): the scan of bins
\* i..NUM_HISTOGRAM_BINS-1 with the running maximum max and choice best.
\* Mutant: the scan stops one bin early.
RECURSIVE WidthScan_short(_, _, _, _)
WidthScan_short(hist, i, max, best) ==
  IF i >= NUM_HISTOGRAM_BINS - 1 THEN best
  ELSE IF hist[i] > max THEN WidthScan_short(hist, i + 1, hist[i], i)
  ELSE WidthScan_short(hist, i + 1, max, best)

\* Mutant: the first non-empty bin is taken, whatever the later bins hold.
RECURSIVE WidthScan_first(_, _, _, _)
WidthScan_first(hist, i, max, best) ==
  IF i >= NUM_HISTOGRAM_BINS THEN best
  ELSE IF hist[i] > 0 /\ max = 0 THEN WidthScan_first(hist, i + 1, hist[i], i)
  ELSE WidthScan_first(hist, i + 1, max, best)

\* Mutant: a bin that equals the running maximum replaces the choice.
RECURSIVE WidthScan_last(_, _, _, _)
WidthScan_last(hist, i, max, best) ==
  IF i >= NUM_HISTOGRAM_BINS THEN best
  ELSE IF hist[i] >= max THEN WidthScan_last(hist, i + 1, hist[i], i)
  ELSE WidthScan_last(hist, i + 1, max, best)

RECURSIVE WidthScan(_, _, _, _)
WidthScan(hist, i, max, best) ==
  IF i >= NUM_HISTOGRAM_BINS THEN best
  ELSE IF hist[i] > max THEN WidthScan(hist, i + 1, hist[i], i)
  ELSE WidthScan(hist, i + 1, max, best)

\* Mutant: the default width is 4.
NumIndentSpaces_default4(loc) ==
  IF UseSpaces(loc) THEN WidthScan(loc.indents_histogram, 1, 0, 4) ELSE 4

\* Mutant: under Tabs no width is inferred and it is left at 0.
NumIndentSpaces_tabs0(loc) ==
  IF UseSpaces(loc) THEN WidthScan(loc.indents_histogram, 1, 0, 2) ELSE 0

NumIndentSpaces(loc) ==
  IF UseSpaces(loc) THEN WidthScan(loc.indents_histogram, 1, 0, 2) ELSE 2

\* -------------------------------------------------- ParseIndentation (222-254)
\* Mutant: the width check does not wait for the purity check to pass.
ParseIndentationLine_nopurity(ts, l, use_spaces, n, vs) ==
  LET line == LineView(ts, l)
      pos == find_first_not_of(ts, line, {" ", "\t"}, 0)
      has_leading == HasLeadingIndent(pos)
      leading_indent == substr(line, 0, pos)
      token == FindTokenAt(ts, GetRangeForText(leading_indent).start)
      pure == isIndentPure(ts, leading_indent, use_spaces, n, vs)
      vs1 == IF has_leading /\ IsSpaceToken(token)
               THEN IF use_spaces
                      THEN CheckLeadingSpacingIndent(leading_indent, n,
                                                     pure.violations).violations
                      ELSE pure.violations
               ELSE vs
      segment == IF has_leading THEN substr(line, pos, npos) ELSE line
  IN IF line.n = 0 THEN vs
     ELSE CheckIndentation(ts, segment, use_spaces, n, vs1)

\* Mutant: a line of spaces and tabs alone is passed over like an empty one.
ParseIndentationLine_skipblank(ts, l, use_spaces, n, vs) ==
  LET line == LineView(ts, l)
      pos == find_first_not_of(ts, line, {" ", "\t"}, 0)
      has_leading == HasLeadingIndent(pos)
      leading_indent == substr(line, 0, pos)
      token == FindTokenAt(ts, GetRangeForText(leading_indent).start)
      pure == isIndentPure(ts, leading_indent, use_spaces, n, vs)
      vs1 == IF has_leading /\ IsSpaceToken(token)
               THEN IF pure.isPure /\ use_spaces
                      THEN CheckLeadingSpacingIndent(leading_indent, n,
                                                     pure.violations).violations
                      ELSE pure.violations
               ELSE vs
      segment == IF has_leading THEN substr(line, pos, npos) ELSE line
  IN IF line.n = 0 \/ pos = npos THEN vs
     ELSE CheckIndentation(ts, segment, use_spaces, n, vs1)

\* The body of the loop over the lines, for line number l.
ParseIndentationLine(ts, l, use_spaces, n, vs) ==
  LET line == LineView(ts, l)
      pos == find_first_not_of(ts, line, {" ", "\t"}, 0)
      has_leading == HasLeadingIndent(pos)
      leading_indent == substr(line, 0, pos)
      token == FindTokenAt(ts, GetRangeForText(leading_indent).start)
      pure == isIndentPure(ts, leading_indent, use_spaces, n, vs)
      vs1 == IF has_leading /\ IsSpaceToken(token)
               THEN IF pure.isPure /\ use_spaces
                      THEN CheckLeadingSpacingIndent(leading_indent, n,
                                                     pure.violations).violations
                      ELSE pure.violations
               ELSE vs
      segment == IF has_leading THEN substr(line, pos, npos) ELSE line
  IN IF line.n = 0 THEN vs
     ELSE CheckIndentation(ts, segment, use_spaces, n, vs1)

\* The leading checks of ParseIndentation on the non-empty line number l
\* (231-250): the violations after them and the segment handed to
\* CheckIndentation (252).
LeadingChecks(ts, l, use_spaces, n, vs) ==
  LET line == LineView(ts, l)
      pos == find_first_not_of(ts, line, {" ", "\t"}, 0)
      has_leading == HasLeadingIndent(pos)
      leading_indent == substr(line, 0, pos)
      token == FindTokenAt(ts, GetRangeForText(leading_indent).start)
      pure == isIndentPure(ts, leading_indent, use_spaces, n, vs)
  IN [violations |->
        IF has_leading /\ IsSpaceToken(token)
          THEN IF pure.isPure /\ use_spaces
                 THEN CheckLeadingSpacingIndent(leading_indent, n,
                                                pure.violations).violations
                 ELSE pure.violations
          ELSE vs,
      segment |-> IF has_leading THEN substr(line, pos, npos) ELSE line]

RECURSIVE ParseIndentationLoop(_, _, _, _, _)
ParseIndentationLoop(ts, l, use_spaces, n, vs) ==
  IF l > Len(ts) THEN vs
  ELSE ParseIndentationLoop(ts, l + 1, use_spaces, n,
                            ParseIndentationLine(ts, l, use_spaces, n, vs))

\* LintRuleStatus(violations_, GetDescriptor()) (256-258)
LintRuleStatus(vs) == [valid |-> TRUE, violations |-> vs]

\* ------------------------------------------------------------------ inputs
Spaces(k) == [i \in 1..k |-> "S"]

\* Plainly indented code, the evidence a profile is inferred from: code
\* indented by 0..MaxIndent spaces, by a tab, by a space and a tab, by a
\* tab and a space.
IndentLines ==
  {Spaces(k) \o <<"x">> : k \in 0..MaxIndent}
    \cup {<<"T", "x">>, <<"S", "T", "x">>, <<"T", "S", "x">>}

\* The other lines: an empty line, a line of one space, a line of one tab,
\* a line continuing a block comment, code with a tab in its body, code
\* with two spaces in its body, code with a string literal holding a space
\* and a tab, code with one space, with two tabs, with a tab, a space and a
\* tab in its body.
OtherLines ==
  {<< >>, <<"S">>, <<"T">>, <<"s", "t", "x">>,
   <<"x", "T", "x">>, <<"x", "S", "S", "x">>, <<"x", "s", "t", "x">>,
   <<"x", "S", "x">>, <<"x", "T", "T", "x">>, <<"x", "T", "S", "T", "x">>}

Lines == IndentLines \cup OtherLines

\* Up to MaxLines lines of plainly indented code, or fewer lines of any kind.
BoundedFiles ==
  UNION {[1..k -> IndentLines] : k \in 1..MaxLines}
    \cup UNION {[1..k -> Lines] : k \in 1..(MaxLines - 1)}

\* "module t;\n    int a;\n\tint b;\nendmodule\n"
ScenarioTie ==
  << <<"x", "x", "x", "x", "x", "x", "S", "x", "x">>,
     <<"S", "S", "S", "S", "x", "x", "x", "S", "x", "x">>,
     <<"T", "x", "x", "x", "S", "x", "x">>,
     <<"x", "x", "x", "x", "x", "x", "x", "x", "x">> >>

\* One line indented by five spaces.
ScenarioFive == << Spaces(5) \o <<"x">> >>

\* "\tint a;" / "\t\t.W\t\t\t()" / "\t\trom ( \t\t\t// c": tab-indented code
\* with single spaces, with three tabs in a body, and with one space and
\* three tabs before a comment.
ScenarioAlign ==
  << <<"T", "x", "x", "x", "S", "x", "x">>,
     <<"T", "T", "x", "x", "T", "T", "T", "x", "x">>,
     <<"T", "T", "x", "x", "x", "S", "x", "S", "T", "T", "T", "x", "x", "s", "x">> >>

\* Code with two whitespace tokens holding a tab each, and a tab run that
\* starts inside a string literal.
ScenarioTabTokens ==
  << <<"x", "T", "x", "S", "T", "x">>,
     <<"x", "t", "T", "x">> >>

\* Space-indented code and lines of spaces and tabs alone: a space and a
\* tab, the same inside a block comment, three spaces, two tabs.
ScenarioBlankSpaces ==
  << <<"S", "S", "x">>, <<"S", "T">>, <<"s", "t">>, <<"S", "S", "S">>,
     <<"T", "T">> >>

\* Tab-indented code and lines of spaces and tabs alone: a tab and a space,
\* two spaces inside a block comment, two spaces, two tabs.
ScenarioBlankTabs ==
  << <<"T", "x">>, <<"T", "S">>, <<"s", "s">>, <<"S", "S">>, <<"T", "T">> >>

Files ==
  BoundedFiles \cup {ScenarioTie, ScenarioFive, ScenarioAlign, ScenarioTabTokens,
                     ScenarioBlankSpaces, ScenarioBlankTabs}

\* The two members have no initializer: they hold whatever the storage held.
Uninitialized ==
  {[indent_use_spaces |-> TRUE, num_indent_spaces |-> 0],
   [indent_use_spaces |-> FALSE, num_indent_spaces |-> 7]}

\* ----------------------------------------------------------- state machine
Init ==
  /\ text_structure = <<>>
  /\ pc = "idle"
  /\ linted = FALSE
  /\ violations_ = {}
  /\ \E u \in Uninitialized :
       /\ indent_use_spaces = u.indent_use_spaces
       /\ num_indent_spaces = u.num_indent_spaces
  /\ num_lines_starting_with_spaces = 0
  /\ num_lines_starting_with_tabs = 0
  /\ indents_histogram = [b \in 0..(NUM_HISTOGRAM_BINS - 1) |-> 0]
  /\ last_space_width = 0
  /\ last_indent = 0
  /\ status = [valid |-> FALSE, violations |-> {}]
  /\ rules = <<>>

\* Lint(f) up to the return of FindFileIndentation (56-60, 152-220).
FindFileIndentation(f) ==
  /\ pc = "idle"
  /\ LET loc == FindFileIndentationLoop(f, 1, FindLocalsInit)
     IN /\ num_lines_starting_with_spaces' = loc.num_lines_starting_with_spaces
        /\ num_lines_starting_with_tabs' = loc.num_lines_starting_with_tabs
        /\ indents_histogram' = loc.indents_histogram
        /\ last_space_width' = loc.last_space_width
        /\ last_indent' = loc.last_indent
        /\ indent_use_spaces' = UseSpaces(loc)
        /\ num_indent_spaces' = NumIndentSpaces(loc)
  /\ text_structure' = f
  /\ pc' = "parse"
  /\ UNCHANGED <<linted, violations_, status, rules>>

\* The rest of Lint: ParseIndentation and the return (62-64, 222-254).
ParseIndentation ==
  /\ pc = "parse"
  /\ violations_' = ParseIndentationLoop(text_structure, 1, indent_use_spaces,
                                         num_indent_spaces, violations_)
  /\ pc' = "idle"
  /\ linted' = TRUE
  /\ UNCHANGED <<text_structure, indent_use_spaces, num_indent_spaces,
                 num_lines_starting_with_spaces, num_lines_starting_with_tabs,
                 indents_histogram, last_space_width, last_indent, status,
                 rules>>

\* Report() (256-258), which the linter calls once Lint has run.
Report ==
  /\ pc = "idle"
  /\ linted
  /\ status' = LintRuleStatus(violations_)
  /\ UNCHANGED <<text_structure, pc, linted, violations_, indent_use_spaces,
                 num_indent_spaces, num_lines_starting_with_spaces,
                 num_lines_starting_with_tabs, indents_histogram,
                 last_space_width, last_indent, rules>>

\* The first Lint is given any file; a later one the same text again.
LintFirst == pc = "idle" /\ ~linted /\ \E f \in Files : FindFileIndentation(f)

LintAgain == linted /\ FindFileIndentation(text_structure)

Next == LintFirst \/ LintAgain \/ ParseIndentation \/ Report

Spec == Init /\ [][Next]_vars

\* ====================================================================== *\
\* Line by line.  The same Lint, one loop iteration per step, for one rule  *
\* instance (SpecLines) and for two instances whose steps interleave       *
\* (SpecTwo).  Each instance is a record of rules: its members, the locals *
\* of its FindFileIndentation call, the file it is given and how many      *
\* lines each of the two loops has been through.                           *
\* ====================================================================== *\
\* The variables of Spec, which these specifications leave alone.
spec_vars == <<text_structure, pc, linted, violations_, indent_use_spaces,
               num_indent_spaces, num_lines_starting_with_spaces,
               num_lines_starting_with_tabs, indents_histogram,
               last_space_width, last_indent, status>>

\* A rule instance as constructed, about to be given file f.
Rule(f, u) ==
  [text_structure |-> f,
   pc |-> "idle",
   linted |-> FALSE,
   profiled |-> 0,                 \* lines FindFileIndentation's loop has done
   validated |-> 0,                \* lines ParseIndentation's loop has done
   violations_ |-> {},
   indent_use_spaces |-> u.indent_use_spaces,
   num_indent_spaces |-> u.num_indent_spaces,
   locals |-> FindLocalsInit]

\* Mutant: Lint validates first and profiles afterwards.
LintOrder_swapped == <<"parse", "find">>

\* The two calls of Lint, in their order (60, 63).
LintOrder == <<"find", "parse">>

\* Where Lint stands when pass p has returned.
AfterPass(p) == IF p = LintOrder[1] THEN LintOrder[2] ELSE "idle"

\* Mutant: the locals are static, one copy for every instance.
LocalsOf_static(i) == 1

\* The instance whose call frame holds the locals of FindFileIndentation
\* called on instance i (155-160): automatic variables, its own.
LocalsOf(i) == i

\* Lint is called (56-60); FindFileIndentation declares its locals (154-160).
Lint(i) ==
  /\ rules[i].pc = "idle" /\ ~rules[i].linted
  /\ rules' = [rules EXCEPT ![LocalsOf(i)].locals = FindLocalsInit,
                            ![i].pc = LintOrder[1]]
  /\ UNCHANGED spec_vars

\* One iteration of the loop of FindFileIndentation (162-205).
FindFileIndentationStep(i) ==
  /\ rules[i].pc = "find"
  /\ rules[i].profiled < Len(rules[i].text_structure)
  /\ rules' = [rules EXCEPT
                 ![LocalsOf(i)].locals =
                   FindFileIndentationLine(rules[i].text_structure,
                                           rules[i].profiled + 1, @),
                 ![i].profiled = @ + 1]
  /\ UNCHANGED spec_vars

\* The loop is over: the profile is assigned and the call returns (207-220).
FindFileIndentationReturn(i) ==
  /\ rules[i].pc = "find"
  /\ rules[i].profiled = Len(rules[i].text_structure)
  /\ rules' = [rules EXCEPT
                 ![i].indent_use_spaces = UseSpaces(rules[LocalsOf(i)].locals),
                 ![i].num_indent_spaces = NumIndentSpaces(rules[LocalsOf(i)].locals),
                 ![i].pc = AfterPass("find"),
                 ![i].linted = AfterPass("find") = "idle"]
  /\ UNCHANGED spec_vars

\* Mutant: validation takes the length of each leading span it meets as
\* the width from then on.
ParseIndentationStep_adapt(i) ==
  /\ rules[i].pc = "parse"
  /\ rules[i].validated < Len(rules[i].text_structure)
  /\ LET ts == rules[i].text_structure
         l == rules[i].validated + 1
         pos == find_first_not_of(ts, LineView(ts, l), {" ", "\t"}, 0)
     IN rules' = [rules EXCEPT
                    ![i].violations_ =
                      ParseIndentationLine(ts, l, rules[i].indent_use_spaces,
                                           rules[i].num_indent_spaces, @),
                    ![i].num_indent_spaces = IF HasLeadingIndent(pos) THEN pos ELSE @,
                    ![i].validated = @ + 1]
  /\ UNCHANGED spec_vars

\* One iteration of the loop of ParseIndentation (224-253).
ParseIndentationStep(i) ==
  /\ rules[i].pc = "parse"
  /\ rules[i].validated < Len(rules[i].text_structure)
  /\ rules' = [rules EXCEPT
                 ![i].violations_ =
                   ParseIndentationLine(rules[i].text_structure,
                                        rules[i].validated + 1,
                                        rules[i].indent_use_spaces,
                                        rules[i].num_indent_spaces, @),
                 ![i].validated = @ + 1]
  /\ UNCHANGED spec_vars

\* The loop is over: ParseIndentation returns (254), and Lint with it (64).
ParseIndentationReturn(i) ==
  /\ rules[i].pc = "parse"
  /\ rules[i].validated = Len(rules[i].text_structure)
  /\ rules' = [rules EXCEPT ![i].pc = AfterPass("parse"),
                            ![i].linted = AfterPass("parse") = "idle"]
  /\ UNCHANGED spec_vars

NextLines ==
  \/ \E i \in DOMAIN rules : Lint(i)
  \/ \E i \in DOMAIN rules : FindFileIndentationStep(i)
  \/ \E i \in DOMAIN rules : FindFileIndentationReturn(i)
  \/ \E i \in DOMAIN rules : ParseIndentationStep(i)
  \/ \E i \in DOMAIN rules : ParseIndentationReturn(i)

\* The single rule of Spec is constructed and never used.
SpecUnused ==
  /\ text_structure = <<>>
  /\ pc = "idle"
  /\ linted = FALSE
  /\ violations_ = {}
  /\ indent_use_spaces = TRUE
  /\ num_indent_spaces = 0
  /\ num_lines_starting_with_spaces = 0
  /\ num_lines_starting_with_tabs = 0
  /\ indents_histogram = [b \in 0..(NUM_HISTOGRAM_BINS - 1) |-> 0]
  /\ last_space_width = 0
  /\ last_indent = 0
  /\ status = [valid |-> FALSE, violations |-> {}]

\* The lines the profile is inferred from: code indented by 0 to
\* MaxIndent + 2 spaces, by a tab, by a space and a tab, a line continuing
\* a block comment behind two spaces, a line of two spaces.
ProfileLines ==
  {Spaces(k) \o <<"x">> : k \in 0..(MaxIndent + 2)}
    \cup {<<"T", "x">>, <<"S", "T", "x">>, <<"s", "s", "x">>, <<"S", "S">>}

ProfileFiles == UNION {[1..k -> ProfileLines] : k \in 1..MaxLines}

\* Five lines indented by three spaces each.
ScenarioFlat == [l \in 1..5 |-> Spaces(3) \o <<"x">>]

\* Indented lines with empty lines before, between and after them.
ScenarioEmptyLines ==
  << <<>>, <<"S", "S", "x">>, <<>>, <<"S", "S", "S", "S", "x">>, <<>> >>

\* Leading spans of both characters: a tab first, a space first.
ScenarioMixedSpans ==
  << <<"T", "S", "x">>, <<"S", "T", "S", "x">>, <<"T", "T", "S", "S", "x">> >>

ProfileScenarios == {ScenarioFlat, ScenarioEmptyLines, ScenarioMixedSpans}

InitLines ==
  /\ SpecUnused
  /\ \E f \in ProfileFiles \cup ProfileScenarios :
       \E u \in Uninitialized : rules = <<Rule(f, u)>>

SpecLines == InitLines /\ [][NextLines]_vars

\* The files of two instances at work side by side.
PairLines == {<<"S", "S", "x">>, <<"T", "x">>}

PairFiles == UNION {[1..k -> PairLines] : k \in 1..(MaxLines - 1)}

InitTwo ==
  /\ SpecUnused
  /\ \E f \in PairFiles : \E g \in PairFiles :
       \E u \in Uninitialized : \E w \in Uninitialized :
         rules = <<Rule(f, u), Rule(g, w)>>

SpecTwo == InitTwo /\ [][NextLines]_vars

\* ---------------------------------------------------------------------- *\
\* Lint with CheckIndentation one iteration of its do-while loop at a time *
\* (SpecScan).  The instance carries the two locals of the call: the       *
\* segment it was given and the scan position.                             *
\* ---------------------------------------------------------------------- *\
\* No call of CheckIndentation is in progress.
NoSegment == StringView(0, 0, 0)

ScanRule(f, u) == Rule(f, u) @@ [segment |-> NoSegment, start_pos |-> npos]

\* ParseIndentation takes its next line (224-252): an empty line is passed
\* over; any other gets its leading checks and CheckIndentation is entered
\* with start_pos = 0 (105).
ParseIndentationLineStart(i) ==
  /\ rules[i].pc = "parse"
  /\ rules[i].validated < Len(rules[i].text_structure)
  /\ LET ts == rules[i].text_structure
         l == rules[i].validated + 1
         lead == LeadingChecks(ts, l, rules[i].indent_use_spaces,
                               rules[i].num_indent_spaces, rules[i].violations_)
     IN IF Len(ts[l]) = 0
          THEN rules' = [rules EXCEPT ![i].validated = @ + 1]
          ELSE rules' = [rules EXCEPT ![i].violations_ = lead.violations,
                                      ![i].segment = lead.segment,
                                      ![i].start_pos = 0,
                                      ![i].pc = "scan"]
  /\ UNCHANGED spec_vars

\* One iteration of the do-while loop of CheckIndentation (106-149); when
\* the position is npos the loop and the call are over and ParseIndentation
\* is through with the line.
CheckIndentationStep(i) ==
  /\ rules[i].pc = "scan"
  /\ LET body == CheckIndentationBody(rules[i].text_structure, rules[i].segment,
                                      rules[i].start_pos,
                                      rules[i].indent_use_spaces,
                                      rules[i].num_indent_spaces,
                                      rules[i].violations_)
     IN IF body.start_pos # npos
          THEN rules' = [rules EXCEPT ![i].violations_ = body.violations,
                                      ![i].start_pos = body.start_pos]
          ELSE rules' = [rules EXCEPT ![i].violations_ = body.violations,
                                      ![i].segment = NoSegment,
                                      ![i].start_pos = npos,
                                      ![i].validated = @ + 1,
                                      ![i].pc = "parse"]
  /\ UNCHANGED spec_vars

\* The lines whose bodies are scanned: an empty line, space-indented code,
\* tab-indented code ending in a tab, code with a tab in a string literal
\* and a tab after it, tab-indented code with two spaces in a comment and
\* two at the end of the line.
ScanLines ==
  {<< >>, <<"S", "S", "x">>, <<"T", "x", "T">>,
   <<"x", "t", "x", "T", "x">>,
   <<"T", "x", "s", "s", "x", "S", "S">>}

ScanFiles == UNION {[1..k -> ScanLines] : k \in 1..(MaxLines - 1)}

NextScan ==
  \/ \E i \in DOMAIN rules : Lint(i)
  \/ \E i \in DOMAIN rules : FindFileIndentationStep(i)
  \/ \E i \in DOMAIN rules : FindFileIndentationReturn(i)
  \/ \E i \in DOMAIN rules : ParseIndentationLineStart(i)
  \/ \E i \in DOMAIN rules : CheckIndentationStep(i)
  \/ \E i \in DOMAIN rules : ParseIndentationReturn(i)

InitScan ==
  /\ SpecUnused
  /\ \E f \in ScanFiles : \E u \in Uninitialized : rules = <<ScanRule(f, u)>>

\* Lint runs to its end: the thread that called it is not stopped half-way.
SpecScan == InitScan /\ [][NextScan]_vars /\ WF_vars(NextScan)

\* ---------------------------------------------------------------------- *\
\* One instance that is given a file, then another (SpecFiles), and asked  *
\* for its report at any time in between.  The instance record also holds  *
\* the files Lint was called on before, those still to come, and the last  *
\* status Report returned.                                                 *
\* ---------------------------------------------------------------------- *\
FilesRule(f, g, u) ==
  Rule(f, u) @@ [done |-> <<>>, pending |-> <<g>>,
                 status |-> [valid |-> FALSE, violations |-> {}]]

\* Mutant: Lint starts from an empty violation set.
LintNextFile_fresh(i) ==
  /\ rules[i].pc = "idle" /\ rules[i].linted
  /\ rules[i].pending # <<>>
  /\ rules' = [rules EXCEPT
                 ![i].done = Append(@, rules[i].text_structure),
                 ![i].text_structure = Head(rules[i].pending),
                 ![i].pending = Tail(@),
                 ![i].profiled = 0,
                 ![i].validated = 0,
                 ![i].violations_ = {},
                 ![i].locals = FindLocalsInit,
                 ![i].linted = FALSE,
                 ![i].pc = LintOrder[1]]
  /\ UNCHANGED spec_vars

\* Lint is called again, on the next file (56-60): the members are as the
\* last call left them, the locals of FindFileIndentation are declared
\* anew (154-160) and the loops start at the first line.
LintNextFile(i) ==
  /\ rules[i].pc = "idle" /\ rules[i].linted
  /\ rules[i].pending # <<>>
  /\ rules' = [rules EXCEPT
                 ![i].done = Append(@, rules[i].text_structure),
                 ![i].text_structure = Head(rules[i].pending),
                 ![i].pending = Tail(@),
                 ![i].profiled = 0,
                 ![i].validated = 0,
                 ![i].locals = FindLocalsInit,
                 ![i].linted = FALSE,
                 ![i].pc = LintOrder[1]]
  /\ UNCHANGED spec_vars

\* Report (256-258), between two calls of Lint or after the last.
ReportOf(i) ==
  /\ rules[i].pc = "idle" /\ rules[i].linted
  /\ rules' = [rules EXCEPT ![i].status = LintRuleStatus(rules[i].violations_)]
  /\ UNCHANGED spec_vars

NextFiles ==
  \/ \E i \in DOMAIN rules : Lint(i)
  \/ \E i \in DOMAIN rules : LintNextFile(i)
  \/ \E i \in DOMAIN rules : FindFileIndentationStep(i)
  \/ \E i \in DOMAIN rules : FindFileIndentationReturn(i)
  \/ \E i \in DOMAIN rules : ParseIndentationStep(i)
  \/ \E i \in DOMAIN rules : ParseIndentationReturn(i)
  \/ \E i \in DOMAIN rules : ReportOf(i)

\* The lines of the files given one after the other: space-indented code,
\* tab-indented code, code with a tab in its body, tab-indented code with
\* two spaces in its body.
SeriesLines ==
  {<<"S", "S", "x">>, <<"T", "x">>, <<"x", "T", "x">>,
   <<"T", "x", "S", "S", "x">>}

SeriesFiles == UNION {[1..k -> SeriesLines] : k \in 1..(MaxLines - 1)}

InitFiles ==
  /\ SpecUnused
  /\ \E f \in SeriesFiles : \E g \in SeriesFiles : \E u \in Uninitialized :
       rules = <<FilesRule(f, g, u)>>

SpecFiles == InitFiles /\ [][NextFiles]_vars

\* ====================================================================== *\
\* Properties.  The vocabulary below describes a file by its lines alone,  *
\* without the operators that model the code.                              *
\* ====================================================================== *\
IsWs(a) == a \in {"S", "T", "s", "t"}

IsSpace(a) == a \in {"S", "s"}

InSpaceToken(a) == a \in {"S", "T"}

\* The number of space and tab characters a line starts with.
LeadLen(ln) == Cardinality({k \in 1..Len(ln) : \A j \in 1..k : IsWs(ln[j])})

\* Empty or whitespace-only.
BlankLine(ln) == LeadLen(ln) = Len(ln)

\* Code after a non-empty leading span.
IndentedLine(ln) == ~BlankLine(ln) /\ LeadLen(ln) > 0

\* An indented line whose leading span the lexer made a TK_SPACE token.
TokenIndented(ln) == IndentedLine(ln) /\ InSpaceToken(ln[1])

\* An indented line whose leading span is k spaces of a TK_SPACE token.
SpaceIndented(ln, k) ==
  IndentedLine(ln) /\ LeadLen(ln) = k /\ \A j \in 1..k : ln[j] = "S"

\* An indented line whose leading span is k tabs of a TK_SPACE token.
TabIndented(ln, k) ==
  IndentedLine(ln) /\ LeadLen(ln) = k /\ \A j \in 1..k : ln[j] = "T"

LineNumbers == 1..Len(text_structure)

\* The leading span of line l, as the code locates it.
LeadSpan(l) == StringView(l, 0, LeadLen(text_structure[l]))

\* The violation the code builds for a span it measured itself.
SpanViolation(sv, reason) == LintViolation(TokenInfo(TK_SPACE, sv), reason)

\* No tab of the file lies in a TK_SPACE token.
NoTokenTab ==
  \A l \in LineNumbers : \A j \in 1..Len(text_structure[l]) :
    text_structure[l][j] # "T"

\* The maximal runs of spaces and tabs of a line that the body scan sees:
\* all of them but the leading span of an indented line.
BodyRuns(ln) ==
  {r \in (1..Len(ln)) \X (1..Len(ln)) :
     /\ r[1] <= r[2]
     /\ \A j \in r[1]..r[2] : IsWs(ln[j])
     /\ (r[1] = 1 \/ ~IsWs(ln[r[1] - 1]))
     /\ (r[2] = Len(ln) \/ ~IsWs(ln[r[2] + 1]))
     /\ ~(IndentedLine(ln) /\ r[1] = 1)}

\* No body run of two or more characters that starts in a TK_SPACE token
\* holds a space: nothing for the body scan to report under Tabs.
NoSpaceRunInBodies ==
  \A l \in LineNumbers : \A r \in BodyRuns(text_structure[l]) :
    ~(/\ r[2] > r[1]
      /\ InSpaceToken(text_structure[l][r[1]])
      /\ \E j \in r[1]..r[2] : IsSpace(text_structure[l][j]))

\* Lint has returned and nothing is in progress.
LintDone == linted /\ pc = "idle"

\* ---------------------------------------------------------------------- C1
\* Every line is blank or has zero leading indentation.
C1_Premise ==
  \A l \in LineNumbers :
    BlankLine(text_structure[l]) \/ LeadLen(text_structure[l]) = 0

\* C1 as claimed: for every file in which each line is blank or has zero
\* leading indentation, Lint followed by Report yields zero violations.
C1_Original == (status.valid /\ C1_Premise) => status.violations = {}

\* C1, amended: for every file in which each line is blank or has zero
\* leading indentation and in which no tab lies in a whitespace token, Lint
\* followed by Report yields zero violations.
C1_NoViolationsWithoutIndentation ==
  (status.valid /\ C1_Premise /\ NoTokenTab) => status.violations = {}

\* Reported: a file of an empty line, a line of one space, two spaces in a
\* body and a tab inside a string literal.
C1_Witness ==
  /\ status.valid /\ pc = "idle" /\ status.violations = violations_
  /\ C1_Premise /\ NoTokenTab
  /\ \E l \in LineNumbers : text_structure[l] = <<"S">>
  /\ \E l \in LineNumbers : text_structure[l] = <<"x", "s", "t", "x">>

\* ---------------------------------------------------------------------- C2
\* C2: no violation is ever reported for a span whose start the token
\* classifier does not classify as a whitespace token; whitespace inside a
\* comment or string literal is never reported, in either mode.
C2_OnlySpaceTokensReported ==
  \A v \in violations_ :
    InSpaceToken(text_structure[v.token.text.line][v.token.text.off + 1])

\* Linted under Tabs: a line continuing a comment whose leading span holds a
\* space, next to a tab-indented line, and nothing was reported.
C2_Witness ==
  /\ LintDone /\ ~indent_use_spaces /\ violations_ = {}
  /\ \E l \in LineNumbers : text_structure[l] = <<"s", "t", "x">>

\* ---------------------------------------------------------------------- C3
\* The file is consistently indented with width w: every indented line's
\* leading span is a whitespace token of spaces only, a positive multiple of
\* w long, and no tab lies in a whitespace token; or every indented line's
\* leading span is a whitespace token of tabs only and no body run of two
\* or more characters holds a space.
C3_Consistent(w) ==
  \/ /\ \A l \in LineNumbers :
          IndentedLine(text_structure[l]) =>
            /\ SpaceIndented(text_structure[l], LeadLen(text_structure[l]))
            /\ LeadLen(text_structure[l]) % w = 0
     /\ NoTokenTab
  \/ /\ \A l \in LineNumbers :
          IndentedLine(text_structure[l]) =>
            TabIndented(text_structure[l], LeadLen(text_structure[l]))
     /\ NoSpaceRunInBodies

\* C3 as claimed: for every width w >= 1 and every file consistently
\* indented with w, Lint reports zero violations.
C3_Original ==
  \A w \in 1..(MaxIndent + 1) : (LintDone /\ C3_Consistent(w)) => violations_ = {}

\* ---------------------------------------------------------------------- C4
\* Every indented line's leading span is a whitespace token of spaces only.
AllSpaceIndented ==
  \A l \in LineNumbers :
    IndentedLine(text_structure[l]) =>
      SpaceIndented(text_structure[l], LeadLen(text_structure[l]))

\* Line l is the one line with width+1 leading spaces; every other indented
\* line uses a multiple of the width.
C4_OneOff(l) ==
  /\ SpaceIndented(text_structure[l], num_indent_spaces + 1)
  /\ \A m \in LineNumbers \ {l} :
       IndentedLine(text_structure[m]) =>
         /\ LeadLen(text_structure[m]) % num_indent_spaces = 0
         /\ LeadLen(text_structure[m]) # num_indent_spaces + 1

C4_OneWidthViolation(l) ==
  violations_ = {SpanViolation(LeadSpan(l), IncorrectNumber(num_indent_spaces))}

\* C4 as claimed: in a space-indented file in which exactly one line has a
\* leading span of width+1 spaces and every other indented line uses a
\* multiple of the width, Lint reports exactly one violation, a width
\* violation at that line's leading span.
C4_Original ==
  \A l \in LineNumbers :
    (LintDone /\ AllSpaceIndented /\ NoTokenTab /\ C4_OneOff(l))
      => C4_OneWidthViolation(l)

\* C4, amended: in a file in which every indented line's leading span is a
\* whitespace token of spaces only, no tab lies in a whitespace token, the
\* inferred width w is at least 2, exactly one line has a leading span of
\* w+1 spaces and every other indented line uses a multiple of w, Lint
\* reports exactly one violation, a width violation at that line's leading
\* span.
C4_OneWidthViolationAtOneOffLine ==
  \A l \in LineNumbers :
    (LintDone /\ AllSpaceIndented /\ NoTokenTab /\ num_indent_spaces >= 2
       /\ C4_OneOff(l))
      => C4_OneWidthViolation(l)

\* Linted: lines of 2, 4 and 3 spaces, width 2, the last line reported.
C4_Witness ==
  /\ LintDone /\ AllSpaceIndented /\ NoTokenTab
  /\ num_indent_spaces = 2
  /\ Len(text_structure) = 3
  /\ SpaceIndented(text_structure[1], 2)
  /\ SpaceIndented(text_structure[2], 4)
  /\ C4_OneOff(3)
  /\ C4_OneWidthViolation(3)

\* ---------------------------------------------------------------------- C5
\* Line l is the one line with two leading spaces; every other indented line
\* has a single leading tab; the bodies hold nothing to report under Tabs.
C5_OneSpaceLine(l) ==
  /\ SpaceIndented(text_structure[l], 2)
  /\ \A m \in LineNumbers \ {l} :
       IndentedLine(text_structure[m]) => TabIndented(text_structure[m], 1)
  /\ NoSpaceRunInBodies

C5_TabsAndOnePurityViolation(l) ==
  /\ ~indent_use_spaces
  /\ violations_ = {SpanViolation(LeadSpan(l), MixedStyleTabs)}

\* C5 as claimed: in a file in which exactly one line has a leading span of
\* two spaces and every other indented line a single leading tab, Tabs is
\* inferred and exactly one purity violation is reported, on that line.
C5_Original ==
  \A l \in LineNumbers :
    (LintDone /\ C5_OneSpaceLine(l)) => C5_TabsAndOnePurityViolation(l)

\* C5, amended: in a file in which exactly one line has a leading span of
\* two spaces, at least two lines have a leading span of a single tab, no
\* line is indented otherwise and no body run of two or more characters
\* holds a space, Tabs is inferred and exactly one purity violation is
\* reported, on the two-space line.
C5_TabsMajorityOnePurityViolation ==
  \A l \in LineNumbers :
    (LintDone /\ C5_OneSpaceLine(l)
       /\ Cardinality({m \in LineNumbers : TabIndented(text_structure[m], 1)}) >= 2)
      => C5_TabsAndOnePurityViolation(l)

\* Linted: two tab-indented lines around a line of two spaces.
C5_Witness ==
  /\ LintDone
  /\ Len(text_structure) = 3
  /\ TabIndented(text_structure[1], 1)
  /\ TabIndented(text_structure[3], 1)
  /\ C5_OneSpaceLine(2)
  /\ C5_TabsAndOnePurityViolation(2)

\* ---------------------------------------------------------------------- C6
\* C6: for 'module t;' / 4 spaces 'int a;' / tab 'int b;' / 'endmodule' the
\* 1-vs-1 tie resolves to Spaces, the width infers to 4, and the tab line is
\* reported as a purity violation, the only violation.
C6_TieScenario ==
  (linted /\ text_structure = ScenarioTie) =>
    /\ num_lines_starting_with_spaces = 1
    /\ num_lines_starting_with_tabs = 1
    /\ indent_use_spaces
    /\ num_indent_spaces = 4
    /\ violations_ = {SpanViolation(StringView(3, 0, 1), MixedStyleSpaces(4))}

C6_Witness ==
  /\ LintDone /\ text_structure = ScenarioTie
  /\ Cardinality(violations_) = 1

\* ---------------------------------------------------------------------- C7
\* C7: running Lint again on the same text yields the same profile and the
\* same violation set: once Lint has returned, no later step of a Lint on
\* that text changes the profile or the violations.
C7_Idempotent ==
  [][linted =>
       /\ violations_' = violations_
       /\ indent_use_spaces' = indent_use_spaces
       /\ num_indent_spaces' = num_indent_spaces]_vars

\* A second Lint has rerun FindFileIndentation on a file with violations.
C7_Witness ==
  /\ linted /\ pc = "parse"
  /\ Cardinality(violations_) >= 2
  /\ num_indent_spaces = 3

C9_NoEvidence ==
  \A l \in LineNumbers : ~TokenIndented(text_structure[l])

\* C9: with zero evidence FindFileIndentation produces {Spaces, 2}.
C9_DefaultProfile ==
  ((pc = "parse" \/ linted) /\ C9_NoEvidence) =>
    (indent_use_spaces /\ num_indent_spaces = 2)

\* A first Lint, before ParseIndentation, on a file whose only indented
\* line continues a comment.
C9_Witness ==
  /\ pc = "parse" /\ ~linted /\ C9_NoEvidence
  /\ \E l \in LineNumbers : IndentedLine(text_structure[l])
  /\ indent_use_spaces /\ num_indent_spaces = 2

\* --------------------------------------------------------------------- C10
\* The purity message under the inferred profile.
PurityReason ==
  IF indent_use_spaces THEN MixedStyleSpaces(num_indent_spaces) ELSE MixedStyleTabs

\* The reason is one of the two "(0)" / "(1)" purity messages.
IsPurityReason(r) == r[1] \in {MixedStyleSpaces(0)[1], MixedStyleTabs[1]}

\* The leading span of line l holds a character other than the unit's.
Impure(l) ==
  \E j \in 1..LeadLen(text_structure[l]) :
    CharOf(text_structure[l][j]) # (IF indent_use_spaces THEN " " ELSE "\t")

\* C10: for every non-blank line whose non-empty leading span is a
\* whitespace token, a purity violation is reported at that span exactly
\* when the span holds a character other than the dominant unit's, and its
\* message names the expected unit.
C10_PurityCheck ==
  linted =>
    \A l \in LineNumbers :
      TokenIndented(text_structure[l]) =>
        {v \in violations_ :
           v.token.text = LeadSpan(l) /\ IsPurityReason(v.reason)}
          = (IF Impure(l) THEN {SpanViolation(LeadSpan(l), PurityReason)} ELSE {})

\* Linted under Tabs: a pure tab line, and a tab-then-space line reported.
C10_Witness ==
  /\ LintDone /\ ~indent_use_spaces
  /\ \E l \in LineNumbers :
       /\ text_structure[l] = <<"T", "S", "x">>
       /\ SpanViolation(LeadSpan(l), MixedStyleTabs) \in violations_
  /\ \E l \in LineNumbers :
       /\ TabIndented(text_structure[l], 1)
       /\ \A v \in violations_ : v.token.text # LeadSpan(l)

\* --------------------------------------------------------------------- C11
\* The reason is the "Incorrect number of spaces" width message.
IsWidthReason(r) == r[1] = IncorrectNumber(0)[1]

\* The violations at the leading span of line l that carry a width message.
WidthViolationsAt(l) ==
  {v \in violations_ : v.token.text = LeadSpan(l) /\ IsWidthReason(v.reason)}

\* C11: a width violation is reported at a line's leading span exactly when
\* the dominant unit is Spaces, the span is a whitespace token, the span
\* passed the purity check and its length is not an exact multiple of the
\* inferred width; every width violation lies at such a span; no span gets
\* both a purity and a width violation; under Tabs no width violation is
\* ever reported.
C11_WidthCheck ==
  linted =>
    /\ \A l \in LineNumbers :
         WidthViolationsAt(l) =
           (IF /\ indent_use_spaces
               /\ TokenIndented(text_structure[l])
               /\ ~Impure(l)
               /\ LeadLen(text_structure[l]) % num_indent_spaces # 0
              THEN {SpanViolation(LeadSpan(l), IncorrectNumber(num_indent_spaces))}
              ELSE {})
    /\ \A v \in violations_ :
         IsWidthReason(v.reason) =>
           \E l \in LineNumbers :
             TokenIndented(text_structure[l]) /\ v.token.text = LeadSpan(l)
    /\ \A v, w \in violations_ :
         v.token.text = w.token.text =>
           ~(IsPurityReason(v.reason) /\ IsWidthReason(w.reason))
    /\ ~indent_use_spaces => \A v \in violations_ : ~IsWidthReason(v.reason)

\* Linted under Spaces: one line got a width violation, and a line whose
\* leading span is impure and not a multiple of the width got the purity
\* violation alone.
C11_Witness ==
  /\ LintDone /\ indent_use_spaces
  /\ \E l \in LineNumbers : WidthViolationsAt(l) # {}
  /\ \E l \in LineNumbers :
       /\ TokenIndented(text_structure[l]) /\ Impure(l)
       /\ LeadLen(text_structure[l]) % num_indent_spaces # 0
       /\ SpanViolation(LeadSpan(l), PurityReason) \in violations_
       /\ WidthViolationsAt(l) = {}

\* --------------------------------------------------------------------- C12
IsTab(a) == a \in {"T", "t"}

\* The first position of a line's body: what follows the leading span of an
\* indented line; a line with no code after its whitespace, or with code
\* in its first column, is all body.
BodyStart(ln) == IF IndentedLine(ln) THEN LeadLen(ln) + 1 ELSE 1

\* The maximal runs of tabs in the body of a line, as <<first, last>>.
TabRuns(ln) ==
  {r \in (BodyStart(ln)..Len(ln)) \X (BodyStart(ln)..Len(ln)) :
     /\ r[1] <= r[2]
     /\ \A j \in r[1]..r[2] : IsTab(ln[j])
     /\ (r[1] = 1 \/ ~IsTab(ln[r[1] - 1]))
     /\ (r[2] = Len(ln) \/ ~IsTab(ln[r[2] + 1]))}

\* The whitespace token of line l that covers position j.
TokenSpan(l, j) ==
  LET ln == text_structure[l]
      first == Min({a \in 1..j : \A k \in a..j : InSpaceToken(ln[k])})
      last == Min({b \in j..Len(ln) :
                     /\ \A k \in j..b : InSpaceToken(ln[k])
                     /\ (b = Len(ln) \/ ~InSpaceToken(ln[b + 1]))})
  IN StringView(l, first - 1, last - first + 1)

\* The reason is the "(2)" message of the body scan under Spaces.
IsBodyReason(r) == r[1] = MixedStyleBody(0)[1]

\* What the body scan has to report under Spaces.
TabRunViolations ==
  UNION {{LintViolation(TokenInfo(TK_SPACE, TokenSpan(l, r[1])),
                        MixedStyleBody(num_indent_spaces)) :
            r \in {q \in TabRuns(text_structure[l]) :
                     text_structure[l][q[1]] = "T"}} :
         l \in LineNumbers}

\* Linted under Spaces: the two whitespace tokens of a line that hold a tab
\* are reported, one of them longer than its run of tabs, and the tab run
\* that starts inside a string literal is not.
C12_Witness ==
  /\ LintDone /\ indent_use_spaces
  /\ text_structure = ScenarioTabTokens
  /\ violations_ =
       {SpanViolation(StringView(1, 1, 1), MixedStyleBody(num_indent_spaces)),
        SpanViolation(StringView(1, 3, 2), MixedStyleBody(num_indent_spaces))}

\* C12: under Spaces, every maximal run of tabs in a line's body whose
\* start is a whitespace token produces a violation at the whitespace token
\* containing it, and the body scan reports nothing else: every other
\* violation is a purity or width violation at a leading span.
C12_BodyScanSpaces ==
  (linted /\ indent_use_spaces) =>
    /\ {v \in violations_ : IsBodyReason(v.reason)} = TabRunViolations
    /\ \A v \in violations_ :
         ~IsBodyReason(v.reason) =>
           /\ IsPurityReason(v.reason) \/ IsWidthReason(v.reason)
           /\ \E l \in LineNumbers :
                TokenIndented(text_structure[l]) /\ v.token.text = LeadSpan(l)

\* --------------------------------------------------------------------- C13
\* The violations that do not lie at the leading span of an indented line:
\* those of the body scan.
BodyViolations ==
  {v \in violations_ :
     ~\E l \in LineNumbers :
        IndentedLine(text_structure[l]) /\ v.token.text = LeadSpan(l)}

\* The atoms a string_view covers.
AtomsOf(sv) == {text_structure[sv.line][sv.off + k] : k \in 1..sv.n}

\* The body run <<first, last>> of line l as a string_view.
RunView(l, r) == StringView(l, r[1] - 1, r[2] - r[1] + 1)

ViolationsOver(sv) ==
  {v \in violations_ :
     /\ v.token.text.line = sv.line
     /\ v.token.text.off < sv.off + sv.n
     /\ sv.off < v.token.text.off + v.token.text.n}

\* C14: under Tabs, a maximal run of space and tab characters in a line's
\* body that has length at least 2, holds at least one space and starts in
\* a whitespace token is reported as one violation spanning the whole run;
\* a run made only of tabs and a run of exactly one character are not
\* reported.
C14_BodyRunsUnderTabs ==
  (linted /\ ~indent_use_spaces) =>
    \A l \in LineNumbers : \A r \in BodyRuns(text_structure[l]) :
      LET sv == RunView(l, r)
      IN /\ (/\ sv.n >= 2
             /\ \E a \in AtomsOf(sv) : IsSpace(a)
             /\ InSpaceToken(text_structure[l][r[1]]))
              => ViolationsOver(sv) = {SpanViolation(sv, MixedStyleTabs)}
         /\ (sv.n = 1 \/ \A a \in AtomsOf(sv) : IsTab(a))
              => ViolationsOver(sv) = {}

\* Linted under Tabs: single spaces and a run of three tabs left alone, the
\* run of one space and three tabs reported as a whole.
C14_Witness ==
  /\ LintDone /\ ~indent_use_spaces
  /\ text_structure = ScenarioAlign
  /\ violations_ = {SpanViolation(StringView(3, 7, 4), MixedStyleTabs)}

\* --------------------------------------------------------------------- C15
\* C15: the violation set never holds two violations with the same location
\* and message; under Spaces a whitespace token of a line's body gets
\* exactly one violation, however many runs of tabs it holds.
C15_UniqueViolations ==
  /\ \A v, w \in violations_ :
       (v.token.text = w.token.text /\ v.reason = w.reason) => v = w
  /\ (linted /\ indent_use_spaces) =>
       \A l \in LineNumbers : \A r \in TabRuns(text_structure[l]) :
         text_structure[l][r[1]] = "T" =>
           Cardinality(ViolationsOver(TokenSpan(l, r[1]))) = 1

\* Linted under Spaces: the token of a tab, a space and a tab holds two
\* runs of tabs and is reported once.
C15_Witness ==
  /\ LintDone /\ indent_use_spaces
  /\ text_structure = << <<"x", "T", "S", "T", "x">> >>
  /\ Cardinality(TabRuns(text_structure[1])) = 2
  /\ violations_ =
       {SpanViolation(StringView(1, 1, 3), MixedStyleBody(num_indent_spaces))}

\* --------------------------------------------------------------------- C16
\* What FindFileIndentation's loop leaves in the locals after the whole of
\* r's file.
WholeFileLocals(r) == FindFileIndentationLoop(r.text_structure, 1, FindLocalsInit)

\* r holds the profile of its whole file.
HasFinalProfile(r) ==
  /\ r.indent_use_spaces = UseSpaces(WholeFileLocals(r))
  /\ r.num_indent_spaces = NumIndentSpaces(WholeFileLocals(r))

\* C16: in every execution of Lint, no line is validated and no violation
\* is inserted until FindFileIndentation has processed the last line of the
\* file, and ParseIndentation works with the (unit, width) computed from
\* the whole file.
C16_TwoPass ==
  \A i \in DOMAIN rules :
    (rules[i].pc = "parse" \/ rules[i].validated > 0 \/ rules[i].violations_ # {})
      => /\ rules[i].profiled = Len(rules[i].text_structure)
         /\ HasFinalProfile(rules[i])

\* ParseIndentation has validated the first of three lines, a tab-indented
\* one, and reported it under the Spaces that the two later lines decide.
C16_Witness ==
  /\ rules[1].text_structure =
       << <<"T", "x">>, <<"S", "S", "x">>, <<"S", "S", "x">> >>
  /\ rules[1].pc = "parse"
  /\ rules[1].profiled = 3
  /\ rules[1].validated = 1
  /\ rules[1].violations_ =
       {LintViolation(TokenInfo(TK_SPACE, StringView(1, 0, 1)), MixedStyleSpaces(2))}

\* --------------------------------------------------------------------- C17
\* r holds what a Lint of its file alone, on a fresh instance, ends with.
HasResultOfLintAlone(r) ==
  /\ HasFinalProfile(r)
  /\ r.violations_ =
       ParseIndentationLoop(r.text_structure, 1, UseSpaces(WholeFileLocals(r)),
                            NumIndentSpaces(WholeFileLocals(r)), {})

\* C17: two rule instances linting two files, their steps interleaved in
\* any order, each end with the profile and the violation set of a run
\* alone; no step changes the state of both instances, and none changes a
\* file.
C17_Independent ==
  /\ [](\A i \in DOMAIN rules :
          rules[i].linted => HasResultOfLintAlone(rules[i]))
  /\ [][\A i \in DOMAIN rules :
          /\ rules'[i].text_structure = rules[i].text_structure
          /\ \A j \in DOMAIN rules \ {i} :
               rules'[i] = rules[i] \/ rules'[j] = rules[j]]_vars

\* Both instances have returned from Lint: the first inferred Spaces and
\* reported the tab-indented line of its file, the second inferred Tabs for
\* its own file and reported nothing.
C17_Witness ==
  /\ Len(rules) = 2
  /\ rules[1].linted /\ rules[2].linted
  /\ rules[1].text_structure = << <<"T", "x">>, <<"S", "S", "x">> >>
  /\ rules[2].text_structure = << <<"T", "x">>, <<"T", "x">> >>
  /\ rules[1].indent_use_spaces /\ rules[1].violations_ # {}
  /\ ~rules[2].indent_use_spaces /\ rules[2].violations_ = {}

\* --------------------------------------------------------------------- C18
Max(S) == CHOOSE m \in S : \A n \in S : m >= n

\* A full-leading-space line: code behind a whitespace token of spaces only.
FullLeadingSpace(ln) == SpaceIndented(ln, LeadLen(ln))

\* The full-leading-space lines of ts before line l.
EarlierFullLeadingSpace(ts, l) == {p \in 1..(l - 1) : FullLeadingSpace(ts[p])}

\* The delta baseline after the first l lines of ts: the leading-space count
\* of the last full-leading-space line that differed from the baseline
\* before it by less than 5, and 0 when there is none.
RECURSIVE Baseline(_, _)
Baseline(ts, l) ==
  IF l = 0 THEN 0
  ELSE LET before == Baseline(ts, l - 1)
       IN IF FullLeadingSpace(ts[l]) /\ Abs(LeadLen(ts[l]) - before) < 5
            THEN LeadLen(ts[l])
            ELSE before

\* This step is an iteration of the loop of FindFileIndentation by instance i.
IsProfilerStep(i) ==
  rules[i].pc = "find" /\ rules'[i].profiled = rules[i].profiled + 1

\* The line that iteration is about, and its number.
ProfiledLineNumber(i) == rules[i].profiled + 1

ProfiledLine(i) == rules[i].text_structure[ProfiledLineNumber(i)]

Histogram(i) == rules[i].locals.indents_histogram

\* The histogram after the step is the one before it with bin b one higher.
BinIncremented(i, b) == Histogram(i)' = [Histogram(i) EXCEPT ![b] = @ + 1]

\* C18 as claimed: for every transition between two consecutive
\* full-leading-space lines with a non-zero difference of their
\* leading-space counts, the difference is clipped to [0, 4] and that bin
\* is incremented, so a difference greater than 4 increments bin 4.
C18_Original ==
  [][\A i \in DOMAIN rules :
       (/\ IsProfilerStep(i)
        /\ FullLeadingSpace(ProfiledLine(i))
        /\ EarlierFullLeadingSpace(rules[i].text_structure,
                                   ProfiledLineNumber(i)) # {})
         => LET ts == rules[i].text_structure
                p == Max(EarlierFullLeadingSpace(ts, ProfiledLineNumber(i)))
                d == Abs(LeadLen(ProfiledLine(i)) - LeadLen(ts[p]))
            IN d > 0 => BinIncremented(i, IF d > 4 THEN 4 ELSE d)]_vars

\* C18, amended: for every full-leading-space line, the absolute difference
\* between its leading-space count and the baseline (the count of the last
\* full-leading-space line whose difference was below 5, 0 before any) is
\* taken; a difference of 1 to 4 increments that bin, and a difference
\* greater than 4 is discarded: no bin is incremented and the baseline and
\* the remembered last difference stay as they are.
C18_DeltaBinnedOrDiscarded ==
  [][\A i \in DOMAIN rules :
       (IsProfilerStep(i) /\ FullLeadingSpace(ProfiledLine(i)))
         => LET d == Abs(LeadLen(ProfiledLine(i))
                         - Baseline(rules[i].text_structure, rules[i].profiled))
            IN /\ d \in 1..4 => BinIncremented(i, d)
               /\ d > 4 =>
                    /\ Histogram(i)' = Histogram(i)
                    /\ rules'[i].locals.last_space_width =
                         rules[i].locals.last_space_width
                    /\ rules'[i].locals.last_indent = rules[i].locals.last_indent]_vars

\* FindFileIndentation has been through a line of one space and a line of
\* six: bin 1 holds the first, the difference of 5 went nowhere and the
\* baseline is still 1.
C18_Witness ==
  /\ rules[1].pc = "find" /\ rules[1].profiled = 2
  /\ SpaceIndented(rules[1].text_structure[1], 1)
  /\ SpaceIndented(rules[1].text_structure[2], 6)
  /\ Histogram(1) = [b \in 0..(NUM_HISTOGRAM_BINS - 1) |-> IF b = 1 THEN 1 ELSE 0]
  /\ rules[1].locals.last_space_width = 1
  /\ rules[1].locals.num_lines_starting_with_spaces = 2

\* --------------------------------------------------------------------- C19
\* A difference of 1 to 4 has been binned.
NonzeroSeen(i) == \E b \in 1..(NUM_HISTOGRAM_BINS - 1) : Histogram(i)[b] > 0

\* C19 as claimed: every transition with a leading-space difference of 0
\* increments the bin of a non-zero difference, also when several zero
\* differences occur in a row; bin 0 is never incremented once a non-zero
\* difference has been seen.
C19_Original ==
  [][\A i \in DOMAIN rules :
       (IsProfilerStep(i) /\ NonzeroSeen(i))
         => /\ Histogram(i)'[0] = Histogram(i)[0]
            /\ (/\ FullLeadingSpace(ProfiledLine(i))
                /\ LeadLen(ProfiledLine(i))
                     = Baseline(rules[i].text_structure, rules[i].profiled))
                 => \E b \in 1..(NUM_HISTOGRAM_BINS - 1) : BinIncremented(i, b)]_vars

\* --------------------------------------------------------------------- C20
\* C20 as claimed: a histogram bin is incremented only for a transition
\* between two lines that both start with a whitespace token; a single
\* indented line with no earlier such line increments no bin.
C20_Original ==
  [][\A i \in DOMAIN rules :
       (IsProfilerStep(i) /\ Histogram(i)' # Histogram(i))
         => /\ TokenIndented(ProfiledLine(i))
            /\ \E p \in 1..rules[i].profiled :
                 TokenIndented(rules[i].text_structure[p])]_vars

\* C20, amended: a histogram bin is incremented only when FindFileIndentation
\* is at a line whose leading span is a whitespace token made of spaces
\* only, and then exactly one bin by one; the first such line of a file is
\* measured against a baseline of 0, so a single line indented by 1 to 4
\* spaces increments the bin of its own width.
C20_BinsOnlyForSpaceTokens ==
  [][\A i \in DOMAIN rules :
       IsProfilerStep(i)
         => /\ Histogram(i)' # Histogram(i)
                 => /\ FullLeadingSpace(ProfiledLine(i))
                    /\ \E b \in 0..(NUM_HISTOGRAM_BINS - 1) : BinIncremented(i, b)
            /\ (/\ FullLeadingSpace(ProfiledLine(i))
                /\ EarlierFullLeadingSpace(rules[i].text_structure,
                                           ProfiledLineNumber(i)) = {}
                /\ LeadLen(ProfiledLine(i)) < NUM_HISTOGRAM_BINS)
                 => BinIncremented(i, LeadLen(ProfiledLine(i)))]_vars

\* FindFileIndentation has been through a line that continues a comment
\* behind two spaces, which left every bin empty, and a first line indented
\* by three spaces, which filled bin 3.
C20_Witness ==
  /\ rules[1].pc = "find" /\ rules[1].profiled = 2
  /\ rules[1].text_structure[1] = <<"s", "s", "x">>
  /\ SpaceIndented(rules[1].text_structure[2], 3)
  /\ Histogram(1) = [b \in 0..(NUM_HISTOGRAM_BINS - 1) |-> IF b = 3 THEN 1 ELSE 0]

\* --------------------------------------------------------------------- C21
\* FindFileIndentation has returned to instance i.
Profiled(i) == rules[i].pc = "parse" \/ rules[i].linted

\* The highest count among bins 1 to 4.
TopCount(hist) == Max({hist[b] : b \in 1..(NUM_HISTOGRAM_BINS - 1)})

\* C21: when the dominant unit is Spaces, the inferred width is an index in
\* 1..4 whose count is the highest among bins 1 to 4, and 2 when bins 1 to
\* 4 are all empty; what bin 0 holds plays no part.
C21_WidthIsArgmax ==
  \A i \in DOMAIN rules :
    (Profiled(i) /\ rules[i].indent_use_spaces)
      => LET w == rules[i].num_indent_spaces
         IN /\ w \in 1..(NUM_HISTOGRAM_BINS - 1)
            /\ TopCount(Histogram(i)) = 0 => w = 2
            /\ TopCount(Histogram(i)) > 0 => Histogram(i)[w] = TopCount(Histogram(i))

\* Five lines of three spaces: bin 0 holds three samples and bin 3 two, and
\* the width is 3.
C21_Witness ==
  /\ rules[1].text_structure = ScenarioFlat
  /\ rules[1].pc = "parse"
  /\ Histogram(1)[0] = 3 /\ Histogram(1)[3] = 2
  /\ rules[1].num_indent_spaces = 3

\* --------------------------------------------------------------------- C22
\* An empty line, a line of spaces and tabs alone, a line with no leading
\* span, or a line whose leading span is not a whitespace token.
NoIndentationSample(ln) ==
  \/ Len(ln) = 0
  \/ BlankLine(ln)
  \/ LeadLen(ln) = 0
  \/ ~InSpaceToken(ln[1])

\* C22: in FindFileIndentation an empty line, a whitespace-only line, a line
\* with zero leading indentation and a line whose leading span is not a
\* whitespace token each leave the space-line count, the tab-line count,
\* every histogram bin and the delta baseline as they were.
C22_NoSampleNoChange ==
  [][\A i \in DOMAIN rules :
       (IsProfilerStep(i) /\ NoIndentationSample(ProfiledLine(i)))
         => /\ rules'[i].locals.num_lines_starting_with_spaces
                 = rules[i].locals.num_lines_starting_with_spaces
            /\ rules'[i].locals.num_lines_starting_with_tabs
                 = rules[i].locals.num_lines_starting_with_tabs
            /\ Histogram(i)' = Histogram(i)
            /\ rules'[i].locals.last_space_width
                 = rules[i].locals.last_space_width]_vars

\* FindFileIndentation has passed an empty line after a line of two spaces:
\* one space line counted, bin 2 filled once, the baseline still 2.
C22_Witness ==
  /\ rules[1].text_structure = ScenarioEmptyLines
  /\ rules[1].pc = "find" /\ rules[1].profiled = 3
  /\ rules[1].locals.num_lines_starting_with_spaces = 1
  /\ rules[1].locals.num_lines_starting_with_tabs = 0
  /\ Histogram(1) = [b \in 0..(NUM_HISTOGRAM_BINS - 1) |-> IF b = 2 THEN 1 ELSE 0]
  /\ rules[1].locals.last_space_width = 2

\* --------------------------------------------------------------------- C23
\* C23: from the return of FindFileIndentation to the return of Lint, no
\* step of ParseIndentation, with the checks it calls on a line, changes
\* the inferred unit or the inferred width.
C23_ProfileKeptWhileValidating ==
  [][\A i \in DOMAIN rules :
       rules[i].pc = "parse"
         => /\ rules'[i].indent_use_spaces = rules[i].indent_use_spaces
            /\ rules'[i].num_indent_spaces = rules[i].num_indent_spaces]_vars

\* Lint has returned with width 3 after validating three space-indented
\* lines, the last of which it reported for its four spaces.
C23_Witness ==
  /\ rules[1].linted /\ rules[1].validated = 3
  /\ SpaceIndented(rules[1].text_structure[1], 3)
  /\ SpaceIndented(rules[1].text_structure[2], 6)
  /\ SpaceIndented(rules[1].text_structure[3], 4)
  /\ rules[1].indent_use_spaces /\ rules[1].num_indent_spaces = 3
  /\ rules[1].violations_ =
       {LintViolation(TokenInfo(TK_SPACE, StringView(3, 0, 4)), IncorrectNumber(3))}

\* --------------------------------------------------------------------- C25
\* C25: a line whose leading span is a whitespace token is classified by the
\* first character of the span alone and counted in exactly one class: the
\* space class when it is a space, the tab class when it is a tab; a span
\* that starts with a space and holds a tab is counted in the space class
\* and changes no histogram bin.
C25_ClassifiedByFirstCharacter ==
  [][\A i \in DOMAIN rules :
       (IsProfilerStep(i) /\ TokenIndented(ProfiledLine(i)))
         => LET ln == ProfiledLine(i)
                spaces == rules[i].locals.num_lines_starting_with_spaces
                tabs == rules[i].locals.num_lines_starting_with_tabs
            IN /\ IsSpace(ln[1]) => (spaces' = spaces + 1 /\ tabs' = tabs)
               /\ IsTab(ln[1]) => (tabs' = tabs + 1 /\ spaces' = spaces)
               /\ (IsSpace(ln[1]) /\ \E j \in 2..LeadLen(ln) : IsTab(ln[j]))
                    => Histogram(i)' = Histogram(i)]_vars

\* FindFileIndentation has been through a tab-then-space span and a
\* space-tab-space span: one line in each class and every bin empty.
C25_Witness ==
  /\ rules[1].text_structure = ScenarioMixedSpans
  /\ rules[1].pc = "find" /\ rules[1].profiled = 2
  /\ rules[1].locals.num_lines_starting_with_spaces = 1
  /\ rules[1].locals.num_lines_starting_with_tabs = 1
  /\ Histogram(1) = [b \in 0..(NUM_HISTOGRAM_BINS - 1) |-> 0]

\* --------------------------------------------------------------------- C26
\* C26: once FindFileIndentation has returned, the inferred width is in
\* 1..4, whatever the file and whichever the dominant unit, so the width
\* ParseIndentation hands to the modulo of CheckLeadingSpacingIndent is
\* never 0.
C26_WidthInRange ==
  (pc = "parse" \/ linted) => num_indent_spaces \in 1..(NUM_HISTOGRAM_BINS - 1)

\* A first FindFileIndentation has inferred Tabs from a file with a
\* tab-indented line, and the width is 2.
C26_Witness ==
  /\ pc = "parse" /\ ~linted
  /\ ~indent_use_spaces
  /\ num_lines_starting_with_tabs > num_lines_starting_with_spaces
  /\ num_indent_spaces = 2

\* --------------------------------------------------------------------- C27
\* C27: when several of the bins 1 to 4 share the highest non-zero count,
\* the inferred width is the smallest index among them.
C27_TieToSmallestBin ==
  \A i \in DOMAIN rules :
    (Profiled(i) /\ rules[i].indent_use_spaces /\ TopCount(Histogram(i)) > 0)
      => rules[i].num_indent_spaces =
           Min({b \in 1..(NUM_HISTOGRAM_BINS - 1) :
                  Histogram(i)[b] = TopCount(Histogram(i))})

\* A line of four spaces and a line of one: bins 4 and 3 hold one sample
\* each, and the width is 3.
C27_Witness ==
  /\ rules[1].pc = "parse"
  /\ Len(rules[1].text_structure) = 2
  /\ SpaceIndented(rules[1].text_structure[1], 4)
  /\ SpaceIndented(rules[1].text_structure[2], 1)
  /\ Histogram(1)[3] = 1 /\ Histogram(1)[4] = 1
  /\ rules[1].num_indent_spaces = 3

\* --------------------------------------------------------------------- C28
\* C28: the delta baseline outlives lines that give no sample and samples
\* that are rejected.  While FindFileIndentation runs, the baseline is the
\* leading-space count of the last accepted full-leading-space line, 0
\* before any; a line that is not a full-leading-space line, such as a line
\* with zero indentation between two indented lines, leaves the baseline
\* and the remembered last difference alone; a difference of 5 or more
\* changes neither the histogram, the baseline nor the remembered last
\* difference.
C28_BaselineSurvives ==
  /\ [](\A i \in DOMAIN rules :
          rules[i].pc = "find"
            => rules[i].locals.last_space_width
                 = Baseline(rules[i].text_structure, rules[i].profiled))
  /\ [][\A i \in DOMAIN rules :
          IsProfilerStep(i)
            => LET ln == ProfiledLine(i)
                   before == rules[i].locals
                   after == rules'[i].locals
                   rejected == /\ FullLeadingSpace(ln)
                               /\ Abs(LeadLen(ln) - before.last_space_width) >= 5
               IN /\ (~FullLeadingSpace(ln) \/ rejected)
                       => /\ after.last_space_width = before.last_space_width
                          /\ after.last_indent = before.last_indent
                  /\ rejected
                       => after.indents_histogram = before.indents_histogram]_vars

\* Two spaces, no indentation, four spaces: the third line was measured
\* against the first, so bin 2 holds both samples.
C28_Witness ==
  /\ rules[1].pc = "find" /\ rules[1].profiled = 3
  /\ SpaceIndented(rules[1].text_structure[1], 2)
  /\ rules[1].text_structure[2] = <<"x">>
  /\ SpaceIndented(rules[1].text_structure[3], 4)
  /\ Histogram(1) = [b \in 0..(NUM_HISTOGRAM_BINS - 1) |-> IF b = 2 THEN 2 ELSE 0]
  /\ rules[1].locals.last_space_width = 4

\* --------------------------------------------------------------------- C30
\* A non-empty line made only of spaces and tabs.
WhitespaceOnly(ln) == Len(ln) > 0 /\ BlankLine(ln)

\* The whole of line l.
WholeLine(l) == StringView(l, 0, Len(text_structure[l]))

\* No leading check has reported line l: under Spaces it carries no "(0)"
\* purity message and no width message, and under Tabs a line of one
\* character, which the body scan leaves alone, carries nothing.
NoLeadingCheck(l) ==
  /\ indent_use_spaces
       => \A v \in ViolationsOver(WholeLine(l)) : IsBodyReason(v.reason)
  /\ (~indent_use_spaces /\ Len(text_structure[l]) = 1)
       => ViolationsOver(WholeLine(l)) = {}

\* Under Spaces every whitespace-token tab of line l is reported with its
\* token.
TokenTabsReported(l) ==
  \A j \in 1..Len(text_structure[l]) :
    text_structure[l][j] = "T"
      => SpanViolation(TokenSpan(l, j), MixedStyleBody(num_indent_spaces))
           \in violations_

\* C30 as claimed: a non-empty line made only of spaces and tabs gets no
\* leading purity or width check; under Spaces a whitespace-token tab in it
\* is reported, and under Tabs every such line of two or more characters
\* that holds a space is reported.
C30_Original ==
  linted =>
    \A l \in LineNumbers :
      WhitespaceOnly(text_structure[l]) =>
        /\ NoLeadingCheck(l)
        /\ indent_use_spaces => TokenTabsReported(l)
        /\ (/\ ~indent_use_spaces
            /\ Len(text_structure[l]) >= 2
            /\ \E j \in 1..Len(text_structure[l]) : IsSpace(text_structure[l][j]))
             => ViolationsOver(WholeLine(l)) # {}

\* C30, amended: a non-empty line made only of spaces and tabs gets no
\* leading purity or width check; under Spaces a whitespace-token tab in it
\* is reported; under Tabs such a line is reported, as one violation over
\* the whole line, exactly when it has two or more characters, holds a
\* space and is a whitespace token: a line of spaces inside a block comment
\* is not reported.
C30_WhitespaceOnlyLines ==
  linted =>
    \A l \in LineNumbers :
      WhitespaceOnly(text_structure[l]) =>
        /\ NoLeadingCheck(l)
        /\ indent_use_spaces => TokenTabsReported(l)
        /\ ~indent_use_spaces =>
             ViolationsOver(WholeLine(l)) =
               (IF /\ Len(text_structure[l]) >= 2
                   /\ \E j \in 1..Len(text_structure[l]) :
                        IsSpace(text_structure[l][j])
                   /\ InSpaceToken(text_structure[l][1])
                  THEN {SpanViolation(WholeLine(l), MixedStyleTabs)}
                  ELSE {})

\* Linted under Tabs: the line of a tab and a space and the line of two
\* spaces are reported whole, the two spaces inside a block comment and the
\* two tabs are not.
C30_Witness ==
  /\ LintDone /\ ~indent_use_spaces
  /\ text_structure = ScenarioBlankTabs
  /\ violations_ =
       {SpanViolation(StringView(2, 0, 2), MixedStyleTabs),
        SpanViolation(StringView(4, 0, 2), MixedStyleTabs)}

\* --------------------------------------------------------------------- C24
\* The scan position of a call of CheckIndentation in progress lies inside
\* the segment or at its end, and the segment inside its line.
ScanInRange(r) ==
  r.pc = "scan" =>
    /\ r.segment.line \in 1..Len(r.text_structure)
    /\ r.segment.off + r.segment.n = Len(r.text_structure[r.segment.line])
    /\ r.start_pos \in 0..r.segment.n

\* C24: Lint returns on every file; no call reads outside its line; each
\* iteration of the loop of CheckIndentation either ends the scan or leaves
\* the scan position strictly further on, also when a run ends with the
\* line or is passed over as not being a whitespace token; and a run passed
\* over does not keep later runs of the line from being checked: Lint ends
\* with the violations of every run of every line.
C24_LintTerminates ==
  /\ <>(\A i \in DOMAIN rules : rules[i].linted)
  /\ [](\A i \in DOMAIN rules :
          /\ ScanInRange(rules[i])
          /\ rules[i].linted => HasResultOfLintAlone(rules[i]))
  /\ [][\A i \in DOMAIN rules :
          rules[i].pc = "scan"
            => \/ rules'[i].pc = "parse"
               \/ /\ rules'[i].pc = "scan"
                  /\ rules'[i].segment = rules[i].segment
                  /\ rules'[i].start_pos > rules[i].start_pos]_vars

\* Under Spaces the scan of "x<tab in a string>x<tab>x" has passed over the
\* first tab, reported the second and stands behind it.
C24_Witness ==
  /\ rules[1].pc = "scan"
  /\ rules[1].indent_use_spaces
  /\ rules[1].text_structure[rules[1].segment.line] = <<"x", "t", "x", "T", "x">>
  /\ rules[1].start_pos = 4
  /\ \E v \in rules[1].violations_ :
       v.token.text = StringView(rules[1].segment.line, 3, 1)
  /\ \A v \in rules[1].violations_ :
       v.token.text # StringView(rules[1].segment.line, 1, 1)

\* --------------------------------------------------------------------- C29
\* The violations a Lint of file f alone, on a fresh instance, ends with.
ViolationsOfLintAlone(f) ==
  LET loc == FindFileIndentationLoop(f, 1, FindLocalsInit)
  IN ParseIndentationLoop(f, 1, UseSpaces(loc), NumIndentSpaces(loc), {})

\* The files Lint has been called on, the current one last.
FilesSoFar(r) == Append(r.done, r.text_structure)

\* C29: the violation set of a rule instance only grows: no step removes a
\* violation; Report leaves the set alone and returns it as it is; and when
\* Lint has returned from a file given after another, the set holds the
\* violations of both files, each as a Lint of that file alone reports
\* them, while the profile is that of the last file alone.
C29_ViolationsAccumulate ==
  /\ [][\A i \in DOMAIN rules :
          /\ rules[i].violations_ \subseteq rules'[i].violations_
          /\ rules'[i].status # rules[i].status
               => /\ rules'[i].violations_ = rules[i].violations_
                  /\ rules'[i].status.violations = rules[i].violations_
                  /\ rules'[i].indent_use_spaces = rules[i].indent_use_spaces
                  /\ rules'[i].num_indent_spaces = rules[i].num_indent_spaces]_vars
  /\ [](\A i \in DOMAIN rules :
          rules[i].linted
            => /\ rules[i].violations_ =
                    UNION {ViolationsOfLintAlone(FilesSoFar(rules[i])[k]) :
                             k \in 1..Len(FilesSoFar(rules[i]))}
               /\ HasFinalProfile(rules[i]))

\* Lint has returned from a file inferred as Spaces, with a tab-indented
\* line reported, and then from a file inferred as Tabs, with two spaces in
\* a body reported; Report has returned both violations and the profile is
\* Tabs.
C29_Witness ==
  /\ rules[1].linted
  /\ rules[1].done = << << <<"S", "S", "x">>, <<"T", "x">> >> >>
  /\ rules[1].text_structure = << <<"T", "x", "S", "S", "x">> >>
  /\ ~rules[1].indent_use_spaces
  /\ rules[1].violations_ =
       {LintViolation(TokenInfo(TK_SPACE, StringView(2, 0, 1)), MixedStyleSpaces(2)),
        LintViolation(TokenInfo(TK_SPACE, StringView(1, 2, 2)), MixedStyleTabs)}
  /\ rules[1].status = LintRuleStatus(rules[1].violations_)

====
